---- MODULE Spec2Model ----
(***************************************************************************)
(* A model of the session-orchestration layer of agent-infra/browser:      *)
(*   - the tab registry `Tabs` (createTab, closeTab, activeTab, the        *)
(*     targetcreated handler, #syncTabMeta), as a set of cooperative       *)
(*     tasks that suspend at every awaited I/O call;                       *)
(*   - the reconnect state machine of `Browser` (#setupAutoReconnect,      *)
(*     #attemptReconnect, destroy).                                        *)
(* Code between two awaited I/O calls runs atomically, as on a JavaScript  *)
(* event loop: one action of the model is one such run-to-next-await.      *)
(***************************************************************************)
EXTENDS Integers, Sequences, FiniteSets, TLC

\* ---------------------------------------------------------------- bounds
\* Tab ids (and page handles) the model hands out in one behaviour.
MaxTabs == 2
\* Registry operations and event handlers in flight at the same time.
MaxTasks == 2
\* Pages the browser may already hold when the registry is constructed.
MaxExisting == 1
\* Awaited browser calls that reject in one behaviour.
MaxFailures == 1

\* Dialogs the page opens in one behaviour.
MaxDialogs == 2
\* accept()/dismiss() calls of one TabDialog in flight at the same time.
MaxDlgCalls == 2
\* Dialogs the page has open at the same time (a further one can open in
\* another frame of the page).
MaxShowing == 2
\* start() calls of one ScreencastRenderer in one behaviour.
MaxStarts == 2
\* Screencast frames the page delivers in one behaviour.
MaxFrames == 3

\* start() and stop() calls of one ScreencastRenderer of browser-ui in one
\* behaviour.
MaxUiStarts == 2

MaxUiStops == 2

\* Of one Tab in one behaviour: the dialogs its page opens, the goBack() and
\* goForward() calls in flight, the reload() calls, and the getFavicon()
\* calls and #syncTabMeta calls of the registry in flight.
MaxTabDialogs == 2

MaxNavs == 2

MaxReloads == 3

MaxFavCalls == 2

MaxSyncs == 2

\* ------------------------------------------- constants of the program
\* reconnectConfig of Browser.#setupAutoReconnect
MaxRetries == 5
RetryInterval == 2000
\* backoffMultiplier 1.5, as the fraction BackoffNum / BackoffDen
BackoffNum == 3
BackoffDen == 2

VARIABLES
    tabs,           \* Tabs.#tabs : tab id -> page handle
    stateTabs,      \* Tabs.state.tabs : sequence of TabMeta, in insertion order
    activeTabId,    \* Tabs.state.activeTabId ; 0 is null
    creatingPages,  \* Tabs.#creatingPages
    tasks,          \* call stack of every async operation in flight
    hist,           \* per task: what it was called with and in which state
    ret,            \* the call that returned in the last step (else NoCall)
    nextTab,        \* tab ids handed out so far (Tab.#id is a fresh random id)
    failures,       \* awaited browser calls that have rejected so far
    \* Browser (puppeteer-enhance)
    pptrBrowser,        \* Browser.#pptrBrowser : 0 is null, else the n-th connection
    isConnected,        \* Browser.#isConnected
    isDestroyed,        \* Browser.#isDestroyed
    reconnectAttempts,  \* Browser.#reconnectAttempts
    listening,          \* the connections that carry the 'disconnected' listener
    up,                 \* the transport of the current connection is up
    bPc,                \* Browser.create(): "init", "ready" or "failed"
    rcPc,               \* #attemptReconnect: "idle", "sleep" or "connect"
    log,                \* every reconnect attempt started, in order
    lastStep,           \* the step of the Browser taken last
    \* TabDialog (browser/src/tabs/dialog.ts)
    dlgDialog,      \* TabDialog.#dialog : 0 is null, else the n-th Dialog object
    dlgListening,   \* #handleEvent has registered the handlers, cleanup() not run
    dlgCalls,       \* accept()/dismiss() calls suspended in the underlying action
    dlgShowing,     \* the dialogs the page is showing
    dlgQueue,       \* notifications of the page on their way to the handlers
    dlgNext,        \* Dialog objects the page has created so far
    dlgLast,        \* the step of the TabDialog taken last, with what it did
    \* ScreencastRenderer (part_002)
    scActive,           \* ScreencastRenderer.#active
    scAbortController,  \* #abortController : 0 is null, else the n-th AbortController
    scObservable,       \* #observable : 0 is null, else the one start() n created
    scCdpSession,       \* #cdpSession is set
    scCalls,            \* start() calls in flight, by the AbortController they made
    scNext,             \* AbortControllers created so far
    scAborted,          \* the AbortControllers whose signal is aborted
    scListeners,        \* per AbortController: its 'abort' listeners, in order
    scLive,             \* the subscriptions whose frame listener is attached
    scQueue,            \* commands sent on the CDP session, not yet replied to
    scRenders,          \* frames being decoded and drawn, per subscription
    scFrames,           \* the frames the page has delivered, in order
    scAcks,             \* the session ids acknowledged, in the order sent
    scRemote,           \* the page is streaming frames
    scLast,             \* the step of the renderer taken last, with what it did
    \* ScreencastRenderer (browser-ui/src/core/screencast-renderer.ts)
    uiCdpSession,       \* #cdpSession is set
    uiAborted,          \* #controller.signal.aborted
    uiObservable,       \* #observable : 0 is null, else the one start() n created
    uiStarts,           \* start() calls in flight
    uiStops,            \* stop() calls in flight
    uiNStarts,          \* start() calls so far
    uiNStops,           \* stop() calls that went past the two guards so far
    uiLive,             \* the subscriptions whose frame listener is attached
    uiQueue,            \* commands sent on the CDP session, not yet replied to
    uiRemote,           \* the page is streaming frames
    uiLast,             \* the step of the renderer taken last, with what it did
    \* Tab (part_000), its page, and the TabMeta the registry publishes for it
    tbDialog,           \* Tab.#dialog : 0 is null, else the n-th Dialog
    tbShowing,          \* the dialog the page is showing (0: none)
    tbNextDlg,          \* dialogs the page has opened so far
    tbHandled,          \* the Dialogs whose accept() or dismiss() was invoked
    tbCmds,             \* dialog commands on their way to the page
    tbQueue,            \* 'dialog' events and command replies on their way back
    tbNavs,             \* goBack()/goForward() calls awaiting the page
    tbIsLoading,        \* Tab.#isLoading
    tbReloadCtrl,       \* Tab.#reloadAbortController : 0 is null
    tbReloads,          \* per reload() call (and its AbortController): where it is
    tbNextCtrl,         \* reload() calls so far
    tbNote,             \* isLoading of the last loadingStateChanged event
    tbFavicon,          \* Tab.#favicon
    tbFavCalls,         \* getFavicon() calls awaiting page.evaluate
    tbSyncs,            \* #syncTabMeta calls awaiting title and favicon
    tbMeta,             \* the TabMeta published for the tab
    tbLast              \* the step of the Tab taken last, with what it did

tabVars == <<tabs, stateTabs, activeTabId, creatingPages, tasks, hist, ret,
             nextTab, failures>>

connVars == <<pptrBrowser, isConnected, isDestroyed, reconnectAttempts,
              listening, up, bPc, rcPc, log, lastStep>>

dlgVars == <<dlgDialog, dlgListening, dlgCalls, dlgShowing, dlgQueue, dlgNext,
             dlgLast>>

castVars == <<scActive, scAbortController, scObservable, scCdpSession, scCalls,
              scNext, scAborted, scListeners, scLive, scQueue, scRenders,
              scFrames, scAcks, scRemote, scLast>>

uiVars == <<uiCdpSession, uiAborted, uiObservable, uiStarts, uiStops, uiNStarts,
            uiNStops, uiLive, uiQueue, uiRemote, uiLast>>

tbVars == <<tbDialog, tbShowing, tbNextDlg, tbHandled, tbCmds, tbQueue, tbNavs,
            tbIsLoading, tbReloadCtrl, tbReloads, tbNextCtrl, tbNote, tbFavicon,
            tbFavCalls, tbSyncs, tbMeta, tbLast>>

vars == <<tabVars, connVars, dlgVars, castVars, uiVars, tbVars>>

\* What the steps of one component leave alone: the other components.
notTabs == <<connVars, dlgVars, castVars, uiVars, tbVars>>

notConn == <<tabVars, dlgVars, castVars, uiVars, tbVars>>

notDialog == <<tabVars, connVars, castVars, uiVars, tbVars>>

notCast == <<tabVars, connVars, dlgVars, uiVars, tbVars>>
\* what a step of the ScreencastRenderer of browser-ui leaves alone
notUi == <<tabVars, connVars, dlgVars, castVars, tbVars>>
\* what a step of the Tab leaves alone
notTab == <<tabVars, connVars, dlgVars, castVars, uiVars>>

TaskIds == 1..MaxTasks

\* ------------------------------------------------- the published Map
\* Map<string, TabMeta> keeps insertion order; set() of a present key keeps
\* its position, delete() removes the entry.
Keys(st) == {st[i].id : i \in DOMAIN st}

KeySeq(st) == [i \in DOMAIN st |-> st[i].id]

MapSet(st, meta) ==
    IF meta.id \in Keys(st)
    THEN [i \in DOMAIN st |-> IF st[i].id = meta.id THEN meta ELSE st[i]]
    ELSE Append(st, meta)

MapDelete(st, id) == SelectSeq(st, LAMBDA m : m.id # id)

\* Array.from(this.state.tabs.keys()).pop() ; 0 is undefined
LastKey(st) == IF st = <<>> THEN 0 ELSE st[Len(st)].id

\* this.#tabs.set / this.#tabs.delete
TabsSet(tb, id, page) == [x \in (DOMAIN tb) \cup {id} |-> IF x = id THEN page ELSE tb[x]]

TabsDelete(tb, id) == [x \in (DOMAIN tb) \ {id} |-> tb[x]]

NoTabs == [x \in {} |-> 0]

\* ------------------------------------------------------------ frames
Frame(fn, pc, tab, page, url) ==
    [fn |-> fn, pc |-> pc, tab |-> tab, page |-> page, url |-> url,
     pend |-> {}, o |-> "none", announced |-> FALSE]

NoCall ==
    [fn |-> "none", arg |-> 0, result |-> "none", solo |-> FALSE,
     preActive |-> 0, prePub |-> <<>>, preTabs |-> {}, newTid |-> 0,
     trail |-> <<>>]

\* The program counters at which a task is suspended in an awaited I/O call,
\* and where it resumes when the call settles.
WaitPcs == {"pages", "newPage", "goto", "bringToFront", "inactive", "fetch",
            "close", "targetPage", "syncAll"}

AfterPc ==
    [pages |-> "pagesDone", newPage |-> "newPageDone", goto |-> "afterGoto",
     bringToFront |-> "bringToFrontDone", inactive |-> "afterInactive",
     fetch |-> "fetchDone", close |-> "closeDone",
     targetPage |-> "targetPageDone", syncAll |-> "syncOne"]

Top(s, t) == s.tasks[t][Len(s.tasks[t])]

Busy(s, t) == s.tasks[t] # <<>>

SetTop(s, t, f) ==
    [s EXCEPT !.tasks[t] = [@ EXCEPT ![Len(@)] = f]]

Goto(s, t, pc) == SetTop(s, t, [Top(s, t) EXCEPT !.pc = pc, !.o = "none"])

\* `await this.callee(...)`: the caller resumes at retPc once the callee returns.
Call(s, t, retPc, callee) ==
    [s EXCEPT !.tasks[t] = Append([@ EXCEPT ![Len(@)].pc = retPc,
                                            ![Len(@)].o = "none"], callee)]

\* A function returns: its frame is popped; when it was the task's outermost
\* call, the call is over. A call during which no other operation was in
\* flight is recorded in ret with its result.
Return(s, t, result) ==
    LET rest == SubSeq(s.tasks[t], 1, Len(s.tasks[t]) - 1) IN
    IF rest = <<>>
    THEN [s EXCEPT !.tasks[t] = <<>>,
                   !.ret = IF s.hist[t].solo
                           THEN [s.hist[t] EXCEPT !.result = result]
                           ELSE NoCall,
                   !.hist[t] = NoCall]
    ELSE [s EXCEPT !.tasks[t] = rest]

\* An awaited call rejects and nothing up the stack catches it: the whole
\* operation ends with the exception.
Throw(s, t) ==
    [s EXCEPT !.tasks[t] = <<>>,
              !.ret = IF s.hist[t].solo
                      THEN [s.hist[t] EXCEPT !.result = "throw"]
                      ELSE NoCall,
              !.hist[t] = NoCall]

\* The page handles some live object still refers to, and a fresh one: the
\* handle newPage() or a popup gets is none of them.
RanTabs(tb) == {tb[x] : x \in DOMAIN tb}

FramePages(stack) ==
    UNION {IF stack[i].fn = "initializeExistingTabs" /\ stack[i].pc = "pages"
           THEN stack[i].pend ELSE {stack[i].page} : i \in DOMAIN stack}

LivePages(s) ==
    RanTabs(s.tabs) \cup s.creatingPages
      \cup UNION {FramePages(s.tasks[t]) : t \in TaskIds}

FreshPage(s) ==
    CHOOSE p \in 1..(MaxTabs + MaxTasks + 1) :
      /\ p \notin LivePages(s)
      /\ \A q \in 1..(p - 1) : q \in LivePages(s)

\* new Tab(page, canvas) ; this.#tabs.set(tabId, tab) ; this.#setupTabEvents
RegisterTab(s, t, page) ==
    [s EXCEPT !.tabs = TabsSet(@, s.nextTab + 1, page),
              !.nextTab = @ + 1,
              !.hist[t].newTid = IF s.hist[t].solo THEN s.nextTab + 1 ELSE 0]

\* ------------------------------------------------------------ Tabs
\* What a call of activeTab during which no other operation is in flight
\* does, in order: kept in the trail of its record.
Note(s, t, e, tabId) ==
    [s EXCEPT !.hist[t].trail = IF s.hist[t].solo /\ s.hist[t].fn = "activeTab"
                                THEN Append(@, [e |-> e, tab |-> tabId])
                                ELSE @]

\* The TabMeta #syncTabMeta builds (lines 212-219). Title, url and favicon
\* are left out: the registry never reads them back.
TabMetaOf(s, tabId, o) ==
    [id |-> tabId,
     isLoading |-> FALSE,
     isActive |-> (tabId = s.activeTabId)]

\* Tabs.#syncTabMeta(tabId)
syncTabMeta(s, t) ==
    LET f == Top(s, t) IN
    CASE f.pc = "start" ->
           IF f.tab \notin DOMAIN s.tabs
           THEN Return(s, t, "void")
           ELSE Goto(s, t, "fetch")
      [] f.pc = "fetchDone" ->
           Return(Note([s EXCEPT !.stateTabs = MapSet(@, TabMetaOf(s, f.tab, f.o))],
                       t, "sync", f.tab),
                  t, "void")

\* The test of activeTab's line 110 with a plausible slip: the tab that was
\* active is never synced.
NeverSyncsPrevious(s, f) == FALSE

\* activeTab, line 110: this.state.activeTabId && this.state.activeTabId !== tabId
SyncsPrevious(s, f) == s.activeTabId # 0 /\ s.activeTabId # f.tab

\* Tabs.activeTab(tabId)
activeTab(s, t) ==
    LET f == Top(s, t) IN
    CASE f.pc = "start" ->
           IF f.tab \notin DOMAIN s.tabs
           THEN Return(s, t, "false")
           ELSE IF SyncsPrevious(s, f)
           THEN Call(s, t, "setActive",
                     Frame("syncTabMeta", "start", s.activeTabId, 0, FALSE))
           ELSE Goto(s, t, "setActive")
      [] f.pc = "setActive" ->
           Goto(Note([s EXCEPT !.activeTabId = f.tab], t, "setActive", f.tab),
                t, "bringToFront")
      [] f.pc = "bringToFrontDone" ->
           IF (DOMAIN s.tabs) \ {f.tab} # {}
           THEN Goto(Note(s, t, "bringToFront", f.tab), t, "inactive")
           ELSE Goto(Note(s, t, "bringToFront", f.tab), t, "afterInactive")
      [] f.pc = "afterInactive" ->
           Call(IF f.o = "ok" THEN Note(s, t, "inactive", 0) ELSE s,
                t, "done", Frame("syncTabMeta", "start", f.tab, 0, FALSE))
      [] f.pc = "done" -> Return(s, t, "true")

\* The test of createTab's line 65 with a plausible slip: the new tab is
\* always activated.
AlwaysActivate(s) == TRUE

\* createTab, line 65: !this.state.activeTabId || this.state.tabs.size === 0
NoActiveTabYet(s) == s.activeTabId = 0 \/ s.stateTabs = <<>>

\* Tabs.createTab(url?)
createTab(s, t) ==
    LET f == Top(s, t) IN
    CASE f.pc = "start" ->
           SetTop(s, t, [f EXCEPT !.pc = "newPage", !.page = FreshPage(s)])
      [] f.pc = "newPageDone" ->
           LET s1 == RegisterTab([s EXCEPT !.creatingPages = @ \cup {f.page}],
                                 t, f.page)
               id == s.nextTab + 1
               s2 == SetTop(s1, t, [f EXCEPT !.tab = id, !.announced = FALSE])
           IN  IF NoActiveTabYet(s)
               THEN Call(s2, t, "afterActive",
                         Frame("activeTab", "start", id, 0, FALSE))
               ELSE Goto(s2, t, "afterActive")
      [] f.pc = "afterActive" ->
           IF f.url THEN Goto(s, t, "goto") ELSE Goto(s, t, "afterGoto")
      [] f.pc = "afterGoto" ->
           Call(s, t, "afterSync", Frame("syncTabMeta", "start", f.tab, 0, FALSE))
      [] f.pc = "afterSync" ->
           Return([s EXCEPT !.creatingPages = @ \ {f.page}], t, "id")

\* Tabs.closeTab(tabId)
closeTab(s, t) ==
    LET f == Top(s, t) IN
    CASE f.pc = "start" ->
           IF f.tab \notin DOMAIN s.tabs
           THEN Return(s, t, "false")
           ELSE Goto(s, t, "close")
      [] f.pc = "closeDone" ->
           LET s1 == [s EXCEPT !.tabs = TabsDelete(@, f.tab),
                               !.stateTabs = MapDelete(@, f.tab)]
               lastTabId == LastKey(s1.stateTabs)
           IN  IF s.activeTabId = f.tab
               THEN IF lastTabId # 0
                    THEN Call([s1 EXCEPT !.activeTabId = 0], t, "done",
                              Frame("activeTab", "start", lastTabId, 0, FALSE))
                    ELSE Call([s1 EXCEPT !.activeTabId = 0], t, "done",
                              Frame("createTab", "start", 0, 0, FALSE))
               ELSE Goto(s1, t, "done")
      [] f.pc = "done" -> Return(s, t, "true")

\* The test of line 279 with a plausible slip: no page counts as being
\* created.
NeverBeingCreated(s, page) == FALSE

\* #handleTargetCreated, line 279: this.#creatingPages.has(newPage)
BeingCreated(s, page) == page \in s.creatingPages

\* Tabs.#handleTargetCreated(target) from `await target.page()` on, and
\* Tabs.#handlePopupCreated(newPage)
handleTargetCreated(s, t) ==
    LET f == Top(s, t) IN
    CASE f.pc = "targetPageDone" ->
           IF f.o = "null" \/ BeingCreated(s, f.page)
           THEN Return(s, t, "void")
           ELSE Call(SetTop(RegisterTab(s, t, f.page), t,
                            [f EXCEPT !.tab = s.nextTab + 1]),
                     t, "popupAfterActive",
                     Frame("activeTab", "start", s.nextTab + 1, 0, FALSE))
      [] f.pc = "popupAfterActive" ->
           Call(s, t, "done", Frame("syncTabMeta", "start", f.tab, 0, FALSE))
      [] f.pc = "done" -> Return(s, t, "void")

\* Tabs.#initializeExistingTabs(), started by the constructor. f.pend holds
\* the ids whose #syncTabMeta (run together under Promise.all) is pending.
initializeExistingTabs(s, t) ==
    LET f == Top(s, t) IN
    CASE f.pc = "pagesDone" ->
           \* f.pend holds the existing pages, the handles 1..k
           IF f.pend = {}
           THEN Return(s, t, "void")
           ELSE LET k == Cardinality(f.pend)
                    ids == (s.nextTab + 1)..(s.nextTab + k)
                    s1 == [s EXCEPT
                             !.tabs = [x \in (DOMAIN s.tabs) \cup ids |->
                                         IF x \in ids THEN x - s.nextTab
                                         ELSE s.tabs[x]],
                             !.nextTab = @ + k]
                IN  Call(SetTop(s1, t, [f EXCEPT !.pend = ids]), t,
                         "initAfterActive",
                         Frame("activeTab", "start", s.nextTab + 1, 0, FALSE))
      [] f.pc = "initAfterActive" ->
           LET live == f.pend \cap DOMAIN s.tabs IN
           IF live = {}
           THEN Return(s, t, "void")
           ELSE SetTop(s, t, [f EXCEPT !.pc = "syncAll", !.pend = live])
      [] f.pc = "syncOne" ->
           \* f.tab is the id whose fetch settled, f.o how
           LET s1 == [s EXCEPT !.stateTabs = MapSet(@, TabMetaOf(s, f.tab, f.o))]
               left == f.pend \ {f.tab}
           IN  IF left = {}
               THEN Return(s1, t, "void")
               ELSE SetTop(s1, t, [f EXCEPT !.pc = "syncAll", !.pend = left,
                                            !.tab = 0, !.o = "none"])

\* One function body, from where it stands to its next await, call or return.
Step(s, t) ==
    LET fn == Top(s, t).fn IN
    CASE fn = "syncTabMeta" -> syncTabMeta(s, t)
      [] fn = "activeTab" -> activeTab(s, t)
      [] fn = "createTab" -> createTab(s, t)
      [] fn = "closeTab" -> closeTab(s, t)
      [] fn = "handleTargetCreated" -> handleTargetCreated(s, t)
      [] fn = "initializeExistingTabs" -> initializeExistingTabs(s, t)
      [] fn = "destroy" -> Return(s, t, "void")

\* Run task t until it is suspended in an awaited I/O call or has returned.
RECURSIVE Run(_, _)
Run(s, t) ==
    IF ~Busy(s, t) \/ Top(s, t).pc \in WaitPcs
    THEN s
    ELSE Run(Step(s, t), t)

\* ------------------------------------------------- the registry's actions
S == [tabs |-> tabs, stateTabs |-> stateTabs, activeTabId |-> activeTabId,
      creatingPages |-> creatingPages, tasks |-> tasks, hist |-> hist,
      ret |-> NoCall, nextTab |-> nextTab]

\* Tasks are anonymous: the ones in flight are kept in the first slots, in
\* the order they were started.
Compact(s0) ==
    LET s == s0
        busy == SelectSeq([i \in TaskIds |-> i], LAMBDA i : s.tasks[i] # <<>>) IN
    [s EXCEPT !.tasks = [i \in TaskIds |->
                           IF i <= Len(busy) THEN s.tasks[busy[i]] ELSE <<>>],
              !.hist = [i \in TaskIds |->
                          IF i <= Len(busy) THEN s.hist[busy[i]] ELSE NoCall]]

\* The step's outcome s becomes the next state. Tab ids are capped: a step
\* that would take one more than MaxTabs is not taken.
Becomes(s) ==
    LET c == Compact(s) IN
    /\ c.nextTab <= MaxTabs
    /\ tabs' = c.tabs
    /\ stateTabs' = c.stateTabs
    /\ activeTabId' = c.activeTabId
    /\ creatingPages' = c.creatingPages
    /\ tasks' = c.tasks
    /\ hist' = c.hist
    /\ ret' = c.ret
    /\ nextTab' = c.nextTab
    /\ UNCHANGED notTabs

\* The slot a newly started operation takes: the first free one.
FreeSlot(t) == tasks[t] = <<>> /\ \A u \in TaskIds : u < t => tasks[u] # <<>>

\* An operation is called: it runs up to its first awaited I/O call. `solo`
\* records that no other operation is in flight during the whole call.
Start(s, t, fn, arg, frame) ==
    LET solo == \A v \in TaskIds \ {t} : s.tasks[v] = <<>> IN
    Run([s EXCEPT
           !.tasks[t] = <<frame>>,
           !.hist = [u \in TaskIds |->
                       IF u = t
                       THEN IF solo
                            THEN [fn |-> fn, arg |-> arg, result |-> "pending",
                                  solo |-> TRUE,
                                  preActive |-> s.activeTabId,
                                  prePub |-> KeySeq(s.stateTabs),
                                  preTabs |-> DOMAIN s.tabs, newTid |-> 0,
                                  trail |-> <<>>]
                            ELSE NoCall
                       ELSE NoCall]],
        t)

\* A caller invokes createTab(url?) ; url is whether a URL is given.
CreateTab(t, url) ==
    /\ FreeSlot(t)
    /\ Becomes(Start(S, t, "createTab", IF url THEN 1 ELSE 0,
                      Frame("createTab", "start", 0, 0, url)))
    /\ UNCHANGED failures

\* A caller invokes closeTab(tabId) with an id it was once given.
CloseTab(t, tabId) ==
    /\ FreeSlot(t)
    /\ Becomes(Start(S, t, "closeTab", tabId, Frame("closeTab", "start", tabId, 0, FALSE)))
    /\ UNCHANGED failures

\* A caller invokes activeTab(tabId) with an id it was once given.
ActiveTab(t, tabId) ==
    /\ FreeSlot(t)
    /\ Becomes(Start(S, t, "activeTab", tabId, Frame("activeTab", "start", tabId, 0, FALSE)))
    /\ UNCHANGED failures

\* A registered tab emits TabLoadingStateChanged: the listener of
\* #setupTabEvents starts #syncTabMeta(tabId) and does not wait for it.
LoadingStateChanged(t, tabId) ==
    /\ FreeSlot(t)
    /\ Becomes(Start(S, t, "syncTabMeta", tabId, Frame("syncTabMeta", "start", tabId, 0, FALSE)))
    /\ UNCHANGED failures

\* A caller invokes destroy() while no operation is in flight: closeTab is
\* called for every registered tab, in the order of their ids, each call
\* running up to its await, and the calls are awaited together. Each call is
\* a task whose outermost frame stands for destroy(): destroy() has returned
\* when the last of them has.
destroy ==
    LET ids == DOMAIN tabs
        k == Cardinality(ids)
        nth(t) == CHOOSE x \in ids : Cardinality({y \in ids : y < x}) = t - 1
        call == [NoCall EXCEPT !.fn = "destroy", !.result = "pending",
                               !.solo = TRUE, !.preActive = activeTabId,
                               !.prePub = KeySeq(stateTabs), !.preTabs = ids]
        s0 == [S EXCEPT
                 !.tasks = [t \in TaskIds |->
                              IF t <= k
                              THEN <<Frame("destroy", "closed", 0, 0, FALSE),
                                     Frame("closeTab", "start", nth(t), 0, FALSE)>>
                              ELSE <<>>],
                 !.hist = [t \in TaskIds |-> IF t <= k THEN call ELSE NoCall],
                 !.ret = IF k = 0 THEN [call EXCEPT !.result = "void"] ELSE NoCall]
        RECURSIVE RunAll(_, _)
        RunAll(s, n) == IF n = 0 THEN s ELSE Run(RunAll(s, n - 1), n)
    IN  /\ \A t \in TaskIds : tasks[t] = <<>>
        /\ k <= MaxTasks
        /\ Becomes(RunAll(s0, k))
        /\ UNCHANGED failures

\* The synchronous head of #handleTargetCreated (lines 268-275): a target
\* that is no page or has no opener is ignored, else target.page() is awaited.
TargetCreated(s, t, page, type, opener) ==
    IF type # "page" \/ ~opener
    THEN FreeSlot(t) /\ Becomes([s EXCEPT !.ret = ret]) /\ UNCHANGED failures
    ELSE /\ FreeSlot(t)
         /\ UNCHANGED failures
         /\ Becomes(Start(s, t, "handleTargetCreated", page,
                          Frame("handleTargetCreated", "targetPage", 0, page, FALSE)))

\* The browser announces the page a pending newPage() is creating. Whether
\* such a target carries an opener is the browser's choice.
NewPageTargetCreated(t, u, opener) ==
    /\ tasks[u] # <<>>
    /\ Top(S, u).fn = "createTab" /\ Top(S, u).pc = "newPage"
    /\ ~Top(S, u).announced
    /\ LET f == Top(S, u)
           s1 == SetTop(S, u, [f EXCEPT !.announced = TRUE])
       IN  TargetCreated(s1, t, f.page, "page", opener)

\* The browser announces a target the registry did not ask for: a popup
\* (a page with an opener), a page without opener, or a non-page target.
ForeignTargetCreated(t, type, opener) ==
    IF type = "page" /\ opener
    THEN TargetCreated(S, t, FreshPage(S), type, opener)
    ELSE TargetCreated(S, t, 0, type, opener)

\* How an awaited call may settle. The two fetches of #syncTabMeta are
\* caught one by one, so the await of their Promise.all never rejects.
FetchOutcomes == {"ok"}

Outcomes(pc) ==
    CASE pc = "fetch" -> FetchOutcomes
      [] pc = "targetPage" -> {"ok", "null", "fail"}
      [] OTHER -> {"ok", "fail"}

\* The I/O call task t awaits settles with outcome o, and the task runs on.
Resume(t, o) ==
    /\ tasks[t] # <<>>
    /\ Top(S, t).pc \in WaitPcs \ {"syncAll"}
    /\ o \in Outcomes(Top(S, t).pc)
    /\ IF o = "fail"
       THEN failures < MaxFailures /\ failures' = failures + 1
       ELSE UNCHANGED failures
    /\ Becomes(IF o = "fail"
               THEN Throw(S, t)
               ELSE Run(SetTop(S, t, [Top(S, t) EXCEPT
                                        !.pc = AfterPc[Top(S, t).pc],
                                        !.o = o]),
                        t))

\* One of the #syncTabMeta calls #initializeExistingTabs runs together settles.
ResumeSyncAll(t, tabId, o) ==
    /\ tasks[t] # <<>>
    /\ Top(S, t).pc = "syncAll"
    /\ tabId \in Top(S, t).pend
    /\ Becomes(Run(SetTop(S, t, [Top(S, t) EXCEPT
                                   !.pc = "syncOne", !.tab = tabId, !.o = o]),
                   t))
    /\ UNCHANGED failures

\* No accept()/dismiss() call in this slot.
NoDlgCall == [op |-> "none", dialog |-> 0, text |-> FALSE, handled |-> FALSE]

\* What a step of the TabDialog did: the #dialog it found, the Dialog object
\* it acted on, what it returned, the TabDialogChanged events it emitted and
\* whether it invoked an underlying dialog action.
DlgStep(step, pre, target, result, emitted, issued) ==
    [step |-> step, pre |-> pre, target |-> target, result |-> result,
     emitted |-> emitted, issued |-> issued]

\* The state right after `new TabDialog(tab)`: no dialog, handlers registered.
DialogNew ==
    /\ dlgDialog = 0
    /\ dlgListening = TRUE
    /\ dlgCalls = [c \in 1..MaxDlgCalls |-> NoDlgCall]
    /\ dlgShowing = {}
    /\ dlgQueue = <<>>
    /\ dlgNext = 0
    /\ dlgLast = DlgStep("new", 0, 0, "none", <<>>, FALSE)

\* No start() call for this AbortController.
NoCastCall == [pc |-> "none", creating |-> FALSE, canvas2d |-> FALSE]

\* What a step of the ScreencastRenderer did and the state it found.
CastStep(step, k, result, emitted, sent, same) ==
    [step |-> step, k |-> k, result |-> result, emitted |-> emitted,
     sent |-> sent, same |-> same,
     preActive |-> scActive, preLive |-> scLive,
     preStarting |-> {i \in 1..MaxStarts : scCalls[i] # NoCastCall},
     preStopping |-> {scQueue[i].k : i \in {j \in DOMAIN scQueue :
                                              scQueue[j].cmd = "Page.stopScreencast"}}]

\* The state right after `new ScreencastRenderer(page, tabId)`.
CastNew ==
    /\ scActive = FALSE
    /\ scAbortController = 0
    /\ scObservable = 0
    /\ scCdpSession = FALSE
    /\ scCalls = [k \in 1..MaxStarts |-> NoCastCall]
    /\ scNext = 0
    /\ scAborted = {}
    /\ scListeners = [k \in 1..MaxStarts |-> <<>>]
    /\ scLive = {}
    /\ scQueue = <<>>
    /\ scRenders = {}
    /\ scFrames = <<>>
    /\ scAcks = <<>>
    /\ scRemote = FALSE
    /\ scLast = [step |-> "new", k |-> 0, result |-> "none", emitted |-> <<>>,
                 sent |-> <<>>, same |-> TRUE, preActive |-> FALSE,
                 preLive |-> {}, preStarting |-> {}, preStopping |-> {}]

\* No start() call in this slot.
NoUiStart == [pc |-> "none", creating |-> FALSE, canvas2d |-> FALSE]

\* What a step of the ScreencastRenderer of browser-ui did and the state it
\* found.
UiStep(step, k, result, sent, same) ==
    [step |-> step, k |-> k, result |-> result, sent |-> sent, same |-> same,
     preSession |-> uiCdpSession, preAborted |-> uiAborted, preLive |-> uiLive,
     preRemote |-> uiRemote,
     preStarting |-> {i \in 1..MaxUiStarts : uiStarts[i] # NoUiStart},
     preStopping |-> {i \in 1..MaxUiStops : uiStops[i] # "none"}]

\* The state right after `new ScreencastRenderer(page, tabId)` of browser-ui.
UiNew ==
    /\ uiCdpSession = FALSE
    /\ uiAborted = FALSE
    /\ uiObservable = 0
    /\ uiStarts = [k \in 1..MaxUiStarts |-> NoUiStart]
    /\ uiStops = [j \in 1..MaxUiStops |-> "none"]
    /\ uiNStarts = 0
    /\ uiNStops = 0
    /\ uiLive = {}
    /\ uiQueue = <<>>
    /\ uiRemote = FALSE
    /\ uiLast = [step |-> "new", k |-> 0, result |-> "none", sent |-> <<>>,
                 same |-> TRUE, preSession |-> FALSE, preAborted |-> FALSE,
                 preRemote |-> FALSE, preLive |-> {}, preStarting |-> {}, preStopping |-> {}]

\* What a step of the Tab did (op, for call k, with what result, emitting
\* which loadingStateChanged values, sending which commands to the page) and
\* the state it found.
TabStep(op, k, result, emitted, sent) ==
    [op |-> op, k |-> k, result |-> result, emitted |-> emitted, sent |-> sent,
     preDialog |-> tbDialog, preLoading |-> tbIsLoading, preNote |-> tbNote,
     preCtrl |-> tbReloadCtrl, preFavicon |-> tbFavicon,
     prePending |-> {j \in 1..MaxReloads : tbReloads[j] = "pending"},
     pub |-> <<>>,
     preOpen |-> (tbShowing # 0 /\ \A i \in DOMAIN tbQueue :
                                     tbQueue[i] # [kind |-> "opened", d |-> tbShowing])]

\* The state right after `new Tab(page)`, the page showing no dialog.
TabNew ==
    /\ tbDialog = 0
    /\ tbShowing = 0
    /\ tbNextDlg = 0
    /\ tbHandled = {}
    /\ tbCmds = <<>>
    /\ tbQueue = <<>>
    /\ tbNavs = <<>>
    /\ tbIsLoading = FALSE
    /\ tbReloadCtrl = 0
    /\ tbReloads = [k \in 1..MaxReloads |-> "none"]
    /\ tbNextCtrl = 0
    /\ tbNote = "none"
    /\ tbFavicon = ""
    /\ tbFavCalls = <<>>
    /\ tbSyncs = <<>>
    /\ tbMeta = <<>>
    /\ tbLast = [op |-> "new", k |-> 0, result |-> "none", emitted |-> <<>>,
                 sent |-> <<>>, preDialog |-> 0, preLoading |-> FALSE,
                 preNote |-> "none", preCtrl |-> 0, preFavicon |-> "",
                 prePending |-> {}, pub |-> <<>>, preOpen |-> FALSE]

\* The Browser a registry is built on: created, connected, never disconnected.
ConnReady ==
    /\ pptrBrowser = 1
    /\ isConnected = TRUE
    /\ isDestroyed = FALSE
    /\ reconnectAttempts = 0
    /\ listening = {1}
    /\ up = TRUE
    /\ bPc = "ready"
    /\ rcPc = "idle"
    /\ log = <<>>
    /\ lastStep = "init"

\* The state right after `new Tabs(browser, canvas)`: everything empty and
\* #initializeExistingTabs suspended in `await browser.pages()`.
TabsInit ==
    /\ ConnReady
    /\ DialogNew
    /\ CastNew
    /\ UiNew
    /\ TabNew
    /\ tabs = NoTabs
    /\ stateTabs = <<>>
    /\ activeTabId = 0
    /\ creatingPages = {}
    /\ \E k \in 0..MaxExisting :
         tasks = [t \in TaskIds |->
                    IF t = 1
                    THEN <<[Frame("initializeExistingTabs", "pages", 0, 0, FALSE)
                            EXCEPT !.pend = 1..k]>>
                    ELSE <<>>]
    /\ hist = [t \in TaskIds |->
                 IF t = 1
                 THEN [NoCall EXCEPT !.fn = "initializeExistingTabs",
                                     !.result = "pending"]
                 ELSE NoCall]
    /\ ret = NoCall
    /\ nextTab = 0
    /\ failures = 0

TabsNext ==
    \/ \E t \in TaskIds :
         \/ \E url \in BOOLEAN : CreateTab(t, url)
         \/ \E tabId \in 1..nextTab : CloseTab(t, tabId)
         \/ \E tabId \in 1..nextTab : ActiveTab(t, tabId)
         \/ \E tabId \in DOMAIN tabs : LoadingStateChanged(t, tabId)
         \/ \E u \in TaskIds, opener \in BOOLEAN : NewPageTargetCreated(t, u, opener)
         \/ \E type \in {"page", "other"}, opener \in BOOLEAN :
              ForeignTargetCreated(t, type, opener)
         \/ \E o \in FetchOutcomes \cup {"null", "fail"} : Resume(t, o)
         \/ \E tabId \in 1..nextTab, o \in FetchOutcomes : ResumeSyncAll(t, tabId, o)
    \/ destroy

SpecTabs == TabsInit /\ [][TabsNext]_vars

\* ------------------------------------------------------------ Browser
Pow(b, e) == b ^ e

\* The exponent of the delay with a plausible slip: the attempt number
\* instead of the number of attempts before it.
DelayOffByOne(n) == (RetryInterval * Pow(BackoffNum, n)) \div Pow(BackoffDen, n)

\* retryInterval * Math.pow(backoffMultiplier, n - 1), lines 269-271. With
\* retryInterval 2000 = 2^4 * 125 the product is a whole number for n <= 5,
\* which the double computes exactly.
Delay(n) == (RetryInterval * Pow(BackoffNum, n - 1)) \div Pow(BackoffDen, n - 1)

\* The increment of line 268 with a plausible slip: the counter is stepped
\* twice.
NextAttemptsTwice(n) == n + 2

\* line 268: this.#reconnectAttempts++
NextAttempts(n) == n + 1

\* line 263: this.#reconnectAttempts >= config.maxRetries
RetriesExhausted(n) == n >= MaxRetries

\* The test of line 295 with a plausible slip: one retry too few.
MayRetryOffByOne(n) == n + 1 < MaxRetries

\* line 295: this.#reconnectAttempts < config.maxRetries
MayRetry(n) == n < MaxRetries

\* The reset of line 287 with a plausible slip: the counter is kept.
KeepAttempts(n) == n

\* line 287: this.#reconnectAttempts = 0
ResetAttempts(n) == 0

Failed(l) == {i \in DOMAIN l : l[i].result = "fail"}

\* Browser.#attemptReconnect(config) up to its `await` of the backoff sleep.
\* The attempt is logged (l is the log so far) with the number of attempts
\* that failed before it.
attemptReconnect(n, l) ==
    IF RetriesExhausted(n)
    THEN /\ reconnectAttempts' = n
         /\ rcPc' = "idle"
         /\ log' = l
    ELSE /\ reconnectAttempts' = NextAttempts(n)
         /\ rcPc' = "sleep"
         /\ log' = Append(l, [k |-> Cardinality(Failed(l)),
                                 delay |-> Delay(NextAttempts(n)),
                                 result |-> "sleeping",
                                 destroyed |-> isDestroyed])

\* The registry is a separate object; no step of the Browser touches it.
NoRegistry ==
    /\ tabs = NoTabs
    /\ stateTabs = <<>>
    /\ activeTabId = 0
    /\ creatingPages = {}
    /\ tasks = [t \in TaskIds |-> <<>>]
    /\ hist = [t \in TaskIds |-> NoCall]
    /\ ret = NoCall
    /\ nextTab = 0
    /\ failures = 0

\* Browser.create(): `new Browser()` then #init, suspended in launch/connect.
ConnInit ==
    /\ NoRegistry
    /\ DialogNew
    /\ CastNew
    /\ UiNew
    /\ TabNew
    /\ pptrBrowser = 0
    /\ isConnected = FALSE
    /\ isDestroyed = FALSE
    /\ reconnectAttempts = 0
    /\ listening = {}
    /\ up = FALSE
    /\ bPc = "init"
    /\ rcPc = "idle"
    /\ log = <<>>
    /\ lastStep = "new"

\* #launch / #connect: the awaited launch()/connect() resolves, the Browser
\* is connected and #setupAutoReconnect registers the listener.
InitOk ==
    /\ bPc = "init"
    /\ pptrBrowser' = 1
    /\ up' = TRUE
    /\ isConnected' = TRUE
    /\ listening' = {1}
    /\ bPc' = "ready"
    /\ lastStep' = "init"
    /\ UNCHANGED <<isDestroyed, reconnectAttempts, rcPc, log, notConn>>

\* launch()/connect() rejects: create() rejects, no Browser is handed out.
InitFail ==
    /\ bPc = "init"
    /\ bPc' = "failed"
    /\ lastStep' = "initFailed"
    /\ UNCHANGED <<pptrBrowser, up, isConnected, listening, isDestroyed,
                   reconnectAttempts, rcPc, log, notConn>>

\* The transport of the current connection drops: puppeteer emits
\* 'disconnected' on it, and the listener of #setupAutoReconnect, when this
\* connection carries it, runs (lines 253-259).
Disconnected ==
    /\ bPc = "ready" /\ up
    /\ up' = FALSE
    /\ lastStep' = "disconnected"
    /\ IF pptrBrowser \in listening /\ ~isDestroyed
       THEN /\ isConnected' = FALSE
            /\ attemptReconnect(reconnectAttempts, log)
       ELSE UNCHANGED <<isConnected, reconnectAttempts, rcPc, log>>
    /\ UNCHANGED <<pptrBrowser, listening, isDestroyed, bPc, notConn>>

\* The backoff sleep of line 277 is over: connect() is issued (line 285).
SleepDone ==
    /\ rcPc = "sleep"
    /\ rcPc' = "connect"
    /\ log' = [log EXCEPT ![Len(log)].result = "connecting",
                            ![Len(log)].destroyed = isDestroyed]
    /\ lastStep' = "sleepDone"
    /\ UNCHANGED <<pptrBrowser, up, isConnected, listening, isDestroyed,
                   reconnectAttempts, bPc, notConn>>

\* connect() resolves (lines 285-288).
ConnectOk ==
    /\ rcPc = "connect"
    /\ pptrBrowser' = pptrBrowser + 1
    /\ up' = TRUE
    /\ isConnected' = TRUE
    /\ reconnectAttempts' = ResetAttempts(reconnectAttempts)
    /\ rcPc' = "idle"
    /\ log' = [log EXCEPT ![Len(log)].result = "ok"]
    /\ lastStep' = "connectOk"
    /\ UNCHANGED <<listening, isDestroyed, bPc, notConn>>

\* connect() rejects (lines 289-298).
ConnectFail ==
    /\ rcPc = "connect"
    /\ lastStep' = "connectFail"
    /\ LET l == [log EXCEPT ![Len(log)].result = "fail"] IN
       IF MayRetry(reconnectAttempts)
       THEN attemptReconnect(reconnectAttempts, l)
       ELSE /\ rcPc' = "idle" /\ log' = l
            /\ UNCHANGED reconnectAttempts
    /\ UNCHANGED <<pptrBrowser, up, isConnected, listening, isDestroyed,
                   bPc, notConn>>

\* Browser.destroy(): the flags are set, then the current connection is
\* disconnected; the 'disconnected' it emits finds #isDestroyed set.
Destroy ==
    /\ bPc = "ready"
    /\ isDestroyed' = TRUE
    /\ isConnected' = FALSE
    /\ up' = FALSE
    /\ lastStep' = "destroy"
    /\ UNCHANGED <<pptrBrowser, listening, reconnectAttempts, bPc, rcPc, log,
                   notConn>>

ConnNext ==
    \/ InitOk
    \/ InitFail
    \/ Disconnected
    \/ SleepDone
    \/ ConnectOk
    \/ ConnectFail
    \/ Destroy

SpecConn == ConnInit /\ [][ConnNext]_vars

\* ------------------------------------------------------------ TabDialog
DlgCallIds == 1..MaxDlgCalls

\* The TabDialogChanged event emitted when a dialog closes (lines 60-63,
\* 83-86, 103-106) and when one opens (lines 49-55; type, message and
\* defaultValue are those of the Dialog object).
ClosedEvent == [isOpen |-> FALSE, dialog |-> 0]

OpenedEvent(d) == [isOpen |-> TRUE, dialog |-> d]

\* The test of lines 77 and 97 with a plausible slip: it never returns early.
NeverNoDialog(d) == FALSE

\* lines 77, 97: !this.#dialog
NoDialog(d) == d = 0

\* The test of line 59 with a plausible slip: the handler always acts.
AlwaysHasDialog(d) == TRUE

\* line 59: if (this.#dialog)
HasDialog(d) == d # 0

\* The catch blocks of lines 90-93 and 110-113 with a plausible slip: the
\* dialog is dropped on failure.
ClearOnFailure(d) == 0

\* lines 90-93, 110-113: #dialog is not touched when the action fails
AfterFailure(d) == d

\* Lines 88 and 108 with a plausible slip: #dialog is kept on success.
KeepOnSuccess(d) == d

\* lines 88, 108: this.#dialog = null
AfterSuccess(d) == 0

\* The slot a new accept()/dismiss() call takes: the first free one.
FreeDlgCall(c) ==
    /\ dlgCalls[c] = NoDlgCall
    /\ \A b \in DlgCallIds : b < c => dlgCalls[b] # NoDlgCall

\* The page opens a dialog (an alert, confirm, prompt or beforeunload) and
\* announces it with a 'dialog' event; a dialog can open while an earlier
\* one is still showing.
PageOpensDialog ==
    /\ Cardinality(dlgShowing) < MaxShowing
    /\ dlgNext < MaxDialogs
    /\ dlgNext' = dlgNext + 1
    /\ dlgShowing' = dlgShowing \cup {dlgNext + 1}
    /\ dlgQueue' = Append(dlgQueue, [kind |-> "opened", dialog |-> dlgNext + 1])
    /\ UNCHANGED <<dlgDialog, dlgListening, dlgCalls, dlgLast, notDialog>>

\* The dialog goes away by other means than this component (the page
\* navigates, another client handles it): Page.javascriptDialogClosed.
PageClosesDialog ==
    \E d \in dlgShowing :
    /\ dlgShowing' = dlgShowing \ {d}
    /\ dlgQueue' = Append(dlgQueue, [kind |-> "closed", dialog |-> d])
    /\ UNCHANGED <<dlgDialog, dlgListening, dlgCalls, dlgNext, dlgLast, notDialog>>

\* TabDialog.#openHandler(dialog), for the 'dialog' event at the head of the
\* queue; after cleanup() the event finds no handler.
openHandler ==
    /\ dlgQueue # <<>> /\ Head(dlgQueue).kind = "opened"
    /\ dlgQueue' = Tail(dlgQueue)
    /\ IF dlgListening
       THEN /\ dlgDialog' = Head(dlgQueue).dialog
            /\ dlgLast' = DlgStep("opened", dlgDialog, Head(dlgQueue).dialog, "none",
                                   <<OpenedEvent(Head(dlgQueue).dialog)>>, FALSE)
       ELSE UNCHANGED <<dlgDialog, dlgLast>>
    /\ UNCHANGED <<dlgListening, dlgCalls, dlgShowing, dlgNext, notDialog>>

\* TabDialog.#closeHandler(), for the Page.javascriptDialogClosed event at
\* the head of the queue.
closeHandler ==
    /\ dlgQueue # <<>> /\ Head(dlgQueue).kind = "closed"
    /\ dlgQueue' = Tail(dlgQueue)
    /\ IF dlgListening
       THEN IF HasDialog(dlgDialog)
            THEN /\ dlgDialog' = 0
                 /\ dlgLast' = DlgStep("closed", dlgDialog, dlgDialog, "none",
                                        <<ClosedEvent>>, FALSE)
            ELSE /\ dlgDialog' = dlgDialog
                 /\ dlgLast' = DlgStep("closed", dlgDialog, dlgDialog, "none",
                                        <<>>, FALSE)
       ELSE UNCHANGED <<dlgDialog, dlgLast>>
    /\ UNCHANGED <<dlgListening, dlgCalls, dlgShowing, dlgNext, notDialog>>

\* accept(promptText?) / dismiss() up to the awaited underlying action: on
\* no dialog it returns false, else it invokes the action on this.#dialog.
DialogCall(c, op, text) ==
    /\ FreeDlgCall(c)
    /\ IF NoDialog(dlgDialog)
       THEN /\ dlgCalls' = dlgCalls
            /\ dlgLast' = DlgStep(op, dlgDialog, dlgDialog, "false", <<>>, FALSE)
       ELSE /\ dlgCalls' = [dlgCalls EXCEPT ![c] =
                               [op |-> op, dialog |-> dlgDialog, text |-> text,
                                handled |-> FALSE]]
            /\ dlgLast' = DlgStep(op, dlgDialog, dlgDialog, "pending", <<>>, TRUE)
    /\ UNCHANGED <<dlgDialog, dlgListening, dlgShowing, dlgQueue, dlgNext, notDialog>>

\* TabDialog.accept(promptText?) is called.
accept(c, text) == DialogCall(c, "accept", text)

\* TabDialog.dismiss() is called.
dismiss(c) == DialogCall(c, "dismiss", FALSE)

\* The page carries out the action of call c: it handles a dialog only
\* while it shows it, and announces that the dialog closed. The reply to the
\* call and that notification travel separately.
PageHandlesDialog(c) ==
    /\ dlgCalls[c] # NoDlgCall /\ ~dlgCalls[c].handled
    /\ dlgCalls[c].dialog \in dlgShowing
    /\ dlgShowing' = dlgShowing \ {dlgCalls[c].dialog}
    /\ dlgQueue' = Append(dlgQueue, [kind |-> "closed", dialog |-> dlgCalls[c].dialog])
    /\ dlgCalls' = [dlgCalls EXCEPT ![c].handled = TRUE]
    /\ UNCHANGED <<dlgDialog, dlgListening, dlgNext, dlgLast, notDialog>>

\* The underlying action of call c resolves (lines 83-89, 103-109).
ActionOk(c) ==
    /\ dlgCalls[c] # NoDlgCall /\ dlgCalls[c].handled
    /\ UNCHANGED <<dlgShowing, dlgQueue>>
    /\ dlgDialog' = AfterSuccess(dlgDialog)
    /\ dlgCalls' = [dlgCalls EXCEPT ![c] = NoDlgCall]
    /\ dlgLast' = DlgStep("actionOk", dlgDialog, dlgCalls[c].dialog, "true",
                           <<ClosedEvent>>, FALSE)
    /\ UNCHANGED <<dlgListening, dlgNext, notDialog>>

\* The underlying action of call c rejects (lines 90-93, 110-113).
ActionFail(c) ==
    /\ dlgCalls[c] # NoDlgCall /\ ~dlgCalls[c].handled
    /\ dlgDialog' = AfterFailure(dlgDialog)
    /\ dlgCalls' = [dlgCalls EXCEPT ![c] = NoDlgCall]
    /\ dlgLast' = DlgStep("actionFailed", dlgDialog, dlgCalls[c].dialog, "false",
                           <<>>, FALSE)
    /\ UNCHANGED <<dlgListening, dlgShowing, dlgQueue, dlgNext, notDialog>>

\* TabDialog.cleanup(): the handlers are removed, #dialog is dropped.
cleanup ==
    /\ dlgListening
    /\ dlgListening' = FALSE
    /\ dlgDialog' = 0
    /\ dlgLast' = DlgStep("cleanup", dlgDialog, dlgDialog, "none", <<>>, FALSE)
    /\ UNCHANGED <<dlgCalls, dlgShowing, dlgQueue, dlgNext, notDialog>>

\* A TabDialog on its own: no registry, the Browser connected.
DialogInit ==
    /\ NoRegistry
    /\ ConnReady
    /\ DialogNew
    /\ CastNew
    /\ UiNew
    /\ TabNew

DialogNext ==
    \/ PageOpensDialog
    \/ PageClosesDialog
    \/ openHandler
    \/ closeHandler
    \/ \E c \in DlgCallIds, text \in BOOLEAN : accept(c, text)
    \/ \E c \in DlgCallIds : dismiss(c)
    \/ \E c \in DlgCallIds : PageHandlesDialog(c)
    \/ \E c \in DlgCallIds : ActionOk(c)
    \/ \E c \in DlgCallIds : ActionFail(c)
    \/ cleanup

SpecDialog == DialogInit /\ [][DialogNext]_vars

\* --------------------------------------------------- ScreencastRenderer
\* The renderer's state as one value; emitted and sent collect the events
\* the step emits and the commands it sends.
SC == [active |-> scActive, ctrl |-> scAbortController, obs |-> scObservable,
       session |-> scCdpSession, calls |-> scCalls, next |-> scNext,
       aborted |-> scAborted, listeners |-> scListeners, live |-> scLive,
       queue |-> scQueue, renders |-> scRenders, frames |-> scFrames,
       acks |-> scAcks, remote |-> scRemote, emitted |-> <<>>, sent |-> <<>>]

\* this.emit(name, ...)
Emit(c, name) == [c EXCEPT !.emitted = Append(@, name)]

\* this.#cdpSession.send(cmd) for start() call / subscription k: the command
\* is on its way, its reply pending.
Send(c, cmd, k) ==
    [c EXCEPT !.sent = Append(@, cmd),
              !.queue = Append(@, [cmd |-> cmd, k |-> k])]

\* Subscription k is closed: its frame listener is detached (lines 367-369)
\* and the renders it has in flight no longer reach anyone.
Unsubscribe(c, k) ==
    [c EXCEPT !.live = @ \ {k},
              !.renders = {r \in @ : r.sub # k}]

\* The stream of subscription k completes: the `complete` callback of lines
\* 493-499 runs, then the subscription is torn down.
Complete(c, k) ==
    Unsubscribe(Emit([c EXCEPT !.active = FALSE], "stopped"), k)

\* The catch block of start() with a plausible slip: #active is left as it is.
CatchKeepsActive(a) == a

\* line 525: this.#active = false
CatchActive(a) == FALSE

\* start(): the catch block of lines 523-529 for call k, which then rethrows.
StartCatch(c, k) ==
    [c EXCEPT !.active = CatchActive(@), !.ctrl = 0, !.obs = 0,
              !.calls[k] = NoCastCall]

\* One listener of an 'abort' event runs: the abortHandler of takeUntil
\* (lines 399-402) completes the stream of its subscription if that is still
\* open; the listener of lines 503-517 unsubscribes and sends the stop
\* command, whose reply it awaits.
RunListener(c, l) ==
    IF l.kind = "takeUntil"
    THEN IF l.sub \in c.live THEN Complete(c, l.sub) ELSE c
    ELSE Send(Unsubscribe(c, l.sub), "Page.stopScreencast", l.sub)

RECURSIVE Dispatch(_, _)
Dispatch(c, ls) ==
    IF ls = <<>> THEN c ELSE Dispatch(RunListener(c, Head(ls)), Tail(ls))

\* controller.abort(): the signal is aborted and its listeners run, in the
\* order they were added; they never run again.
Abort(c, a) ==
    [Dispatch([c EXCEPT !.aborted = @ \cup {a}], c.listeners[a])
       EXCEPT !.listeners[a] = <<>>]

\* line 444: if (this.#active)
AlreadyActive(a) == a

\* line 536: !this.#active || !this.#abortController
NothingToStop(a, ctrl) == ~a \/ ctrl = 0

\* start() from line 483 on, for call k, once the start command has been
\* replied to: the stream is created and subscribed (takeUntil adds its
\* abortHandler to the controller the field holds, if any), then the abort
\* listener is added to the controller the field holds: a TypeError when
\* the field is null by now. A canvas without 2D context makes
\* #createScreencastObservable throw. Both end in the catch block.
Subscribe(c, k) ==
    IF ~c.calls[k].canvas2d
    THEN [c |-> StartCatch(c, k), step |-> "startThrew", result |-> "throw"]
    ELSE LET c1 == [c EXCEPT
                      !.obs = k,
                      !.live = @ \cup {k},
                      !.listeners = IF c.ctrl = 0 THEN @
                                    ELSE [@ EXCEPT ![c.ctrl] =
                                            Append(@, [kind |-> "takeUntil", sub |-> k])]]
         IN  IF c.ctrl = 0
             THEN [c |-> StartCatch(c1, k), step |-> "startThrew", result |-> "throw"]
             ELSE [c |-> Emit([c1 EXCEPT
                                 !.listeners[c.ctrl] =
                                    Append(@, [kind |-> "abort", sub |-> k]),
                                 !.calls[k] = NoCastCall],
                              "started"),
                   step |-> "started", result |-> "void"]

\* Whether a step left every field of the renderer as it found it.
SameCast(c) ==
    /\ c.active = scActive /\ c.ctrl = scAbortController /\ c.obs = scObservable
    /\ c.session = scCdpSession /\ c.calls = scCalls /\ c.aborted = scAborted
    /\ c.listeners = scListeners /\ c.live = scLive /\ c.queue = scQueue
    /\ c.remote = scRemote

\* The step's outcome c becomes the next state.
CastBecomes(c, step, k, result) ==
    /\ scActive' = c.active
    /\ scAbortController' = c.ctrl
    /\ scObservable' = c.obs
    /\ scCdpSession' = c.session
    /\ scCalls' = c.calls
    /\ scNext' = c.next
    /\ scAborted' = c.aborted
    /\ scListeners' = c.listeners
    /\ scLive' = c.live
    /\ scQueue' = c.queue
    /\ scRenders' = c.renders
    /\ scFrames' = c.frames
    /\ scAcks' = c.acks
    /\ scRemote' = c.remote
    /\ scLast' = CastStep(step, k, result, c.emitted, c.sent, SameCast(c))
    /\ UNCHANGED notCast

\* ScreencastRenderer.start(canvas, options) is called; canvas2d is whether
\* the canvas yields a 2D context. It runs to `await this.#initCDPSession()`.
CastStart(canvas2d) ==
    IF AlreadyActive(scActive)
    THEN CastBecomes(SC, "start", 0, "throw")
    ELSE /\ scNext < MaxStarts
         /\ CastBecomes([SC EXCEPT
                           !.active = TRUE,
                           !.ctrl = scNext + 1,
                           !.next = scNext + 1,
                           !.calls[scNext + 1] =
                              [pc |-> "initSession", creating |-> ~scCdpSession,
                               canvas2d |-> canvas2d]],
                         "start", scNext + 1, "pending")

\* #initCDPSession of call k resolves (with the session createCDPSession()
\* made, or at once when there was one): the start command is sent.
SessionOk(k) ==
    /\ scCalls[k].pc = "initSession"
    /\ CastBecomes(Send([SC EXCEPT !.session = TRUE,
                                   !.calls[k].pc = "startCmd"],
                         "Page.startScreencast", k),
                    "sessionOk", k, "pending")

\* createCDPSession() of call k rejects: start() rejects.
SessionFail(k) ==
    /\ scCalls[k].pc = "initSession" /\ scCalls[k].creating
    /\ CastBecomes(StartCatch(SC, k), "startFailed", k, "throw")

\* The page replies to the start command of call k: it streams from now on.
StartCmdOk ==
    /\ scQueue # <<>> /\ Head(scQueue).cmd = "Page.startScreencast"
    /\ LET k == Head(scQueue).k
           r == Subscribe([SC EXCEPT !.queue = Tail(@), !.remote = TRUE], k)
       IN  CastBecomes(r.c, r.step, k, r.result)

\* The start command of call k fails: start() rejects.
StartCmdFail ==
    /\ scQueue # <<>> /\ Head(scQueue).cmd = "Page.startScreencast"
    /\ CastBecomes(StartCatch([SC EXCEPT !.queue = Tail(@)], Head(scQueue).k),
                    "startFailed", Head(scQueue).k, "throw")

\* The stop command of an abort listener is replied to or fails (then logged):
\* the listener goes on with lines 513-516.
StopCmdSettled(ok) ==
    /\ scQueue # <<>> /\ Head(scQueue).cmd = "Page.stopScreencast"
    /\ CastBecomes(Emit([SC EXCEPT !.queue = Tail(@),
                                   !.remote = IF ok THEN FALSE ELSE @,
                                   !.active = FALSE,
                                   !.obs = 0],
                         "stopped"),
                    "stopSettled", Head(scQueue).k, IF ok THEN "ok" ELSE "logged")

\* ScreencastRenderer.stop()
CastStop ==
    IF NothingToStop(scActive, scAbortController)
    THEN CastBecomes(SC, "stop", 0, "void")
    ELSE CastBecomes([Abort(SC, scAbortController) EXCEPT !.ctrl = 0],
                     "stop", scAbortController, "void")

\* The acknowledgments one frame gets: tap (lines 373-377) sends one in
\* every open subscription.
AcksFor(sid, n) == [i \in 1..n |-> sid]

\* The page delivers a frame, which it does only when the one before has
\* been acknowledged; ts is whether its metadata carries a timestamp. Every
\* open subscription acknowledges it (tap), drops it without timestamp
\* (filter) and starts to decode and draw it (mergeMap).
FrameDelivered(ts) ==
    /\ scRemote
    /\ Len(scFrames) < MaxFrames
    /\ scFrames = <<>> \/ \E i \in DOMAIN scAcks : scAcks[i] = scFrames[Len(scFrames)].sid
    /\ LET sid == Len(scFrames) + 1 IN
       CastBecomes([SC EXCEPT
                      !.frames = Append(@, [sid |-> sid, ts |-> ts]),
                      !.acks = @ \o AcksFor(sid, Cardinality(scLive)),
                      !.renders = IF ts
                                  THEN @ \cup {[sub |-> k, frame |-> sid] : k \in scLive}
                                  ELSE @,
                      !.sent = AcksFor("Page.screencastFrameAck", Cardinality(scLive))],
                   "frame", sid, "none")

\* A frame has been decoded and drawn.
RenderOk(r) ==
    /\ r \in scRenders
    /\ CastBecomes([SC EXCEPT !.renders = @ \ {r}], "rendered", r.sub, "none")

\* Decoding or drawing a frame fails: the inner stream of mergeMap errors,
\* catchError (lines 385-390) emits 'error' and replaces the stream by EMPTY,
\* which completes.
RenderFail(r) ==
    /\ r \in scRenders
    /\ CastBecomes(Complete(Emit(SC, "error"), r.sub), "renderFailed", r.sub, "none")

\* A ScreencastRenderer on its own.
CastInit ==
    /\ NoRegistry
    /\ ConnReady
    /\ DialogNew
    /\ CastNew
    /\ UiNew
    /\ TabNew

CastNext ==
    \/ \E canvas2d \in BOOLEAN : CastStart(canvas2d)
    \/ \E k \in 1..MaxStarts : SessionOk(k)
    \/ \E k \in 1..MaxStarts : SessionFail(k)
    \/ StartCmdOk
    \/ StartCmdFail
    \/ \E ok \in BOOLEAN : StopCmdSettled(ok)
    \/ CastStop
    \/ \E ts \in BOOLEAN : FrameDelivered(ts)
    \/ \E r \in scRenders : RenderOk(r)
    \/ \E r \in scRenders : RenderFail(r)

SpecCast == CastInit /\ [][CastNext]_vars

\* ------------------------------------------------------------ claims
Quiescent == \A t \in TaskIds : tasks[t] = <<>>

EverRegistered == nextTab > 0

Range(q) == {q[i] : i \in DOMAIN q}

Without(q, id) == SelectSeq(q, LAMBDA x : x # id)

\* C1: in every reachable state, also at the await points inside createTab,
\* closeTab, activeTab and the popup handler, the published activeTabId is
\* absent or is a key of the published tabs map.
C1_ActiveTabIdKeysTabs ==
    activeTabId = 0 \/ activeTabId \in Keys(stateTabs)

\* C2: once a tab has been registered, activeTabId does not stay unset: when
\* every started operation has completed, it is present. (Stated here for
\* behaviours in which no browser call has rejected.)
C2_ActiveTabIdNeverStaysUnset ==
    (EverRegistered /\ Quiescent /\ failures = 0) => activeTabId # 0

\* C3: a page handle is registered as exactly one Tab: the registry never
\* holds two tab ids that wrap the same page.
C3_PageRegisteredOnce ==
    \A a, b \in DOMAIN tabs : tabs[a] = tabs[b] => a = b

\* C4: createTab makes the new tab active only if no active tab exists yet.
\* For a call during which no other operation is in flight: on an empty
\* registry it returns with activeTabId equal to the new id; when
\* activeTabId keys a published tab it returns with the new tab published
\* and activeTabId unchanged.
C4_CreateTabActivatesOnlyFirst ==
    (ret.fn = "createTab" /\ ret.result = "id") =>
       /\ (ret.preTabs = {} /\ ret.prePub = <<>> /\ ret.preActive = 0)
            => activeTabId = ret.newTid
       /\ (ret.preActive # 0 /\ ret.preActive \in Range(ret.prePub))
            => /\ activeTabId = ret.preActive
               /\ ret.newTid \in Keys(stateTabs)
               /\ ret.newTid \notin ret.preTabs

\* C4 witness: createTab(url) has returned from a call made while a published
\* tab was active.
C4_Witness ==
    /\ ret.fn = "createTab" /\ ret.result = "id" /\ ret.arg = 1
    /\ ret.preActive # 0 /\ ret.preActive \in Range(ret.prePub)
    /\ activeTabId = ret.preActive
    /\ Keys(stateTabs) = {ret.preActive, ret.newTid}

\* C5: when closeTab(id) closes the active tab and other tabs remain
\* published, id is removed and the new activeTabId is the most recently
\* inserted of the remaining tabs. (A call with no other operation in
\* flight.)
C5_CloseActiveFallsBackToLast ==
    (/\ ret.fn = "closeTab" /\ ret.result = "true"
     /\ ret.preActive = ret.arg
     /\ Without(ret.prePub, ret.arg) # <<>>)
    => /\ ret.arg \notin Keys(stateTabs)
       /\ activeTabId = Without(ret.prePub, ret.arg)[Len(Without(ret.prePub, ret.arg))]

\* C6: when closeTab(id) closes the only remaining tab, a fresh tab has been
\* created and is the active tab when closeTab returns, so tabs is not left
\* empty. (A call with no other operation in flight.)
C6_CloseLastCreatesFreshTab ==
    (/\ ret.fn = "closeTab" /\ ret.result = "true"
     /\ ret.preTabs = {ret.arg}
     /\ Range(ret.prePub) = {ret.arg})
    => /\ stateTabs # <<>>
       /\ activeTabId \in Keys(stateTabs)
       /\ activeTabId \notin ret.preTabs

\* ------------------------------------------------ claims on the Browser
NoneSucceeded == \A i \in DOMAIN log : log[i].result # "ok"

\* C7: with every reconnect attempt failing, exactly maxRetries attempts are
\* made after a disconnect and then the connection stays Failed: the number
\* of attempts started never exceeds maxRetries, and the sequence comes to
\* rest only after maxRetries failed attempts, not connected.
C7_ExactlyMaxRetriesAttempts ==
    NoneSucceeded =>
      /\ Len(log) <= MaxRetries
      /\ (rcPc = "idle" /\ log # <<>>) =>
            /\ Len(log) = MaxRetries
            /\ Failed(log) = DOMAIN log
            /\ ~isConnected
            /\ reconnectAttempts = MaxRetries

\* C7 witness: the sequence has come to rest after maxRetries failed attempts.
C7_Witness ==
    /\ rcPc = "idle" /\ ~isDestroyed
    /\ Len(log) = MaxRetries /\ Failed(log) = DOMAIN log

\* C8: after destroy() no reconnect attempt is issued and the connection is
\* never marked connected again, also when destroy() is called while a
\* backoff sleep or an attempt is in progress.
C8_DestroySuppressesReconnect ==
    isDestroyed =>
      /\ ~isConnected
      /\ \A i \in DOMAIN log : log[i].result \in {"connecting", "ok", "fail"}
                                   => ~log[i].destroyed

\* C9: the delay before the attempt made when k attempts have failed is
\* baseInterval * backoffMultiplier^k; the first three are 2000, 3000, 4500.
C9_BackoffDelay ==
    /\ \A i \in DOMAIN log :
         log[i].delay * Pow(BackoffDen, log[i].k) = RetryInterval * Pow(BackoffNum, log[i].k)
    /\ Len(log) >= 3 =>
         /\ log[1].delay = 2000 /\ log[2].delay = 3000 /\ log[3].delay = 4500
         /\ log[1].k = 0 /\ log[2].k = 1 /\ log[3].k = 2

\* C9 witness: a third attempt has been started, after two failed ones.
C9_Witness == Len(log) >= 3 /\ log[3].k = 2 /\ log[3].delay = 4500

\* C10: the step in which a reconnect attempt succeeds leaves the connection
\* connected with the attempt counter at 0, whatever the number of failed
\* attempts before it.
C10_SuccessResetsAttempts ==
    lastStep = "connectOk" => isConnected /\ reconnectAttempts = 0

\* C10 witness: an attempt has just succeeded after two or more failed ones.
C10_Witness ==
    /\ lastStep = "connectOk" /\ Cardinality(Failed(log)) >= 2
    /\ isConnected /\ reconnectAttempts = 0

\* C35: a disconnect of the current connection of a Browser that is not
\* destroyed, the re-established connection included, marks it not connected
\* and starts the reconnect sequence.
C35_EveryDisconnectReconnects ==
    (lastStep = "disconnected" /\ ~isDestroyed) => (~isConnected /\ rcPc = "sleep")

\* C40: the attempt counter stays within 0..maxRetries, and no attempt is
\* started when the counter is maxRetries already.
C40_AttemptsWithinMaxRetries ==
    /\ [](reconnectAttempts \in 0..MaxRetries)
    /\ [][(rcPc # "sleep" /\ rcPc' = "sleep") => reconnectAttempts < MaxRetries]_vars

\* C40 witness: the attempt started with the counter at maxRetries - 1 has
\* failed and no further one was started.
C40_Witness ==
    /\ lastStep = "connectFail"
    /\ rcPc = "idle"
    /\ reconnectAttempts = MaxRetries
    /\ log[Len(log)].result = "fail"

\* ---------------------------------------------- claims on the TabDialog
\* C17: accept(text?) and dismiss() on a Closed interceptor return false and
\* do nothing: no underlying action is invoked, no change event is emitted
\* and the state stays Closed.
C17_ClosedAcceptDismissNoOp ==
    (dlgLast.step \in {"accept", "dismiss"} /\ dlgLast.pre = 0) =>
       /\ dlgLast.result = "false"
       /\ ~dlgLast.issued
       /\ dlgLast.emitted = <<>>
       /\ dlgDialog = 0

\* C17 witness: dismiss() has returned false on an interceptor that is
\* Closed again after a dialog had been open.
C17_Witness ==
    /\ dlgLast.step = "dismiss" /\ dlgLast.pre = 0 /\ dlgLast.result = "false"
    /\ dlgNext > 0 /\ dlgDialog = 0

\* C18: when the underlying action of accept()/dismiss() on an Open dialog
\* fails, the call returns false, emits no change event and leaves the
\* interceptor Open with the same dialog, so that a later call acts again.
C18_FailureLeavesOpen ==
    dlgLast.step = "actionFailed" =>
       /\ dlgLast.result = "false"
       /\ dlgLast.emitted = <<>>
       /\ dlgDialog = dlgLast.pre
       /\ dlgLast.pre # 0 => ~NoDialog(dlgDialog)

\* C18 witness: the action on the open dialog has failed and the dialog is
\* still the interceptor's.
C18_Witness ==
    /\ dlgLast.step = "actionFailed" /\ dlgLast.pre # 0
    /\ dlgLast.target = dlgLast.pre /\ dlgDialog = dlgLast.pre

\* C19: when the underlying action of accept()/dismiss() on an Open dialog
\* succeeds, the call returns true, the interceptor is Closed afterwards and
\* a change event with isOpen = false has been emitted.
C19_SuccessCloses ==
    dlgLast.step = "actionOk" =>
       /\ dlgLast.result = "true"
       /\ dlgDialog = 0
       /\ dlgLast.emitted = <<ClosedEvent>>

\* C19 witness: the action on the open dialog has succeeded, before the
\* dialog-closed notification of the page has been handled.
C19_Witness ==
    /\ dlgLast.step = "actionOk" /\ dlgLast.pre # 0
    /\ dlgLast.target = dlgLast.pre /\ dlgDialog = 0
    /\ dlgQueue # <<>>

\* C20: the low-level dialog-closed notification forces Open to Closed with
\* one change event; arriving while the interceptor is already Closed it
\* emits no event and changes no state.
C20_ClosedNotificationIdempotent ==
    dlgLast.step = "closed" =>
       /\ dlgDialog = 0
       /\ dlgLast.emitted = IF dlgLast.pre # 0 THEN <<ClosedEvent>> ELSE <<>>

\* C20 witness: the notification has arrived on an interceptor that an
\* accept()/dismiss() had already closed.
C20_Witness ==
    /\ dlgLast.step = "closed" /\ dlgLast.pre = 0 /\ dlgNext > 0
    /\ dlgLast.emitted = <<>>

\* ------------------------------------- ScreencastRenderer of browser-ui
\* The renderer's state as one value; sent collects the commands the step
\* sends.
UI == [session |-> uiCdpSession, aborted |-> uiAborted, obs |-> uiObservable,
       starts |-> uiStarts, stops |-> uiStops, nStarts |-> uiNStarts,
       nStops |-> uiNStops, live |-> uiLive, queue |-> uiQueue,
       remote |-> uiRemote, sent |-> <<>>]

\* this.#cdpSession.send(cmd) by start() call or stop() call k.
UiSend(u, cmd, k) ==
    [u EXCEPT !.sent = Append(@, cmd),
              !.queue = Append(@, [cmd |-> cmd, k |-> k])]

\* The step's outcome u becomes the next state.
UiBecomes(u, step, k, result) ==
    /\ uiCdpSession' = u.session
    /\ uiAborted' = u.aborted
    /\ uiObservable' = u.obs
    /\ uiStarts' = u.starts
    /\ uiStops' = u.stops
    /\ uiNStarts' = u.nStarts
    /\ uiNStops' = u.nStops
    /\ uiLive' = u.live
    /\ uiQueue' = u.queue
    /\ uiRemote' = u.remote
    /\ uiLast' = UiStep(step, k, result, u.sent, [u EXCEPT !.sent = <<>>] = UI)
    /\ UNCHANGED notUi

\* start(): the catch block of lines 161-165 for call k, which then rethrows.
UiStartCatch(u, k) == [u EXCEPT !.obs = 0, !.starts[k] = NoUiStart]

\* start(canvas, options) is called (nothing guards a second call); it runs
\* to `await this.#initCDPSession()`.
UiStart(canvas2d) ==
    /\ uiNStarts < MaxUiStarts
    /\ UiBecomes([UI EXCEPT
                    !.nStarts = @ + 1,
                    !.starts[uiNStarts + 1] =
                       [pc |-> "initSession", creating |-> ~uiCdpSession,
                        canvas2d |-> canvas2d]],
                 "start", uiNStarts + 1, "pending")

\* #initCDPSession of call k resolves: a session it created is stored; then
\* `this.#cdpSession!.send('Page.startScreencast')`, a TypeError when a stop()
\* has cleared the field meanwhile.
UiSessionOk(k) ==
    /\ uiStarts[k].pc = "initSession"
    /\ IF ~uiStarts[k].creating /\ ~uiCdpSession
       THEN UiBecomes(UiStartCatch(UI, k), "startThrew", k, "throw")
       ELSE UiBecomes(UiSend([UI EXCEPT !.session = TRUE,
                                        !.starts[k].pc = "startCmd"],
                             "Page.startScreencast", k),
                      "sessionOk", k, "pending")

\* createCDPSession() of call k rejects: start() rejects.
UiSessionFail(k) ==
    /\ uiStarts[k].pc = "initSession" /\ uiStarts[k].creating
    /\ UiBecomes(UiStartCatch(UI, k), "startFailed", k, "throw")

\* The page replies to the start command of call k and streams from now on;
\* lines 147-160: the stream is created (a canvas without 2D context throws)
\* and subscribed. With the field cleared by a stop() meanwhile, attaching
\* the frame listener throws inside the stream, whose error callback calls
\* stop(), which returns at its first guard.
UiStartCmdOk ==
    /\ uiQueue # <<>> /\ Head(uiQueue).cmd = "Page.startScreencast"
    /\ LET k == Head(uiQueue).k
           u == [UI EXCEPT !.queue = Tail(@), !.remote = TRUE]
       IN  IF ~uiStarts[k].canvas2d
           THEN UiBecomes(UiStartCatch(u, k), "startThrew", k, "throw")
           ELSE UiBecomes([u EXCEPT !.obs = k,
                                    !.live = IF u.session THEN @ \cup {k} ELSE @,
                                    !.starts[k] = NoUiStart],
                          "started", k, "void")

\* The start command of call k fails: start() rejects.
UiStartCmdFail ==
    /\ uiQueue # <<>> /\ Head(uiQueue).cmd = "Page.startScreencast"
    /\ UiBecomes(UiStartCatch([UI EXCEPT !.queue = Tail(@)], Head(uiQueue).k),
                 "startFailed", Head(uiQueue).k, "throw")

\* line 169: if (!this.#cdpSession)
UiNoSession(session) == ~session

\* stop(): lines 168-177, to `await this.#cdpSession.send('Page.stopScreencast')`.
UiStop ==
    IF UiNoSession(uiCdpSession) \/ uiAborted
    THEN UiBecomes(UI, "stop", 0, "void")
    ELSE /\ uiNStops < MaxUiStops
         /\ UiBecomes(UiSend([UI EXCEPT !.nStops = @ + 1,
                                        !.stops[uiNStops + 1] = "stopCmd"],
                             "Page.stopScreencast", uiNStops + 1),
                      "stop", uiNStops + 1, "pending")

\* The page replies to the stop command of stop() call j and stops
\* streaming; lines 178-180: the controller is aborted, which completes
\* every stream that was subscribed before the signal was first aborted,
\* then `await this.#cdpSession.detach()`, a TypeError when another stop()
\* has cleared the field meanwhile.
UiStopCmdOk ==
    /\ uiQueue # <<>> /\ Head(uiQueue).cmd = "Page.stopScreencast"
    /\ LET j == Head(uiQueue).k
           u == [UI EXCEPT !.queue = Tail(@),
                           !.remote = FALSE,
                           !.aborted = TRUE,
                           !.live = IF uiAborted THEN @ ELSE {}]
       IN  IF ~uiCdpSession
           THEN UiBecomes([u EXCEPT !.stops[j] = "none"], "stopThrew", j, "throw")
           ELSE UiBecomes(UiSend([u EXCEPT !.stops[j] = "detach"], "detach", j),
                          "stopCmdOk", j, "pending")

\* The stop command of stop() call j fails: line 177 is not in a try block,
\* stop() rejects.
UiStopCmdFail ==
    /\ uiQueue # <<>> /\ Head(uiQueue).cmd = "Page.stopScreencast"
    /\ UiBecomes([UI EXCEPT !.queue = Tail(@), !.stops[Head(uiQueue).k] = "none"],
                 "stopFailed", Head(uiQueue).k, "throw")

\* detach() of stop() call j resolves; line 181 clears the field. The
\* detached session delivers no frame any more.
UiDetachOk ==
    /\ uiQueue # <<>> /\ Head(uiQueue).cmd = "detach"
    /\ UiBecomes([UI EXCEPT !.queue = Tail(@),
                            !.session = FALSE,
                            !.remote = FALSE,
                            !.live = {},
                            !.stops[Head(uiQueue).k] = "none"],
                 "stopped", Head(uiQueue).k, "void")

\* detach() of stop() call j rejects: stop() rejects.
UiDetachFail ==
    /\ uiQueue # <<>> /\ Head(uiQueue).cmd = "detach"
    /\ UiBecomes([UI EXCEPT !.queue = Tail(@), !.stops[Head(uiQueue).k] = "none"],
                 "detachFailed", Head(uiQueue).k, "throw")

\* A frame reaches subscription k and decoding or drawing it fails:
\* catchError (lines 98-101) replaces the stream by EMPTY, which completes.
UiFrameFails(k) ==
    /\ uiRemote /\ k \in uiLive
    /\ UiBecomes([UI EXCEPT !.live = @ \ {k},
                            !.sent = <<"Page.screencastFrameAck">>],
                 "renderFailed", k, "none")

\* A ScreencastRenderer of browser-ui on its own.
UiInit ==
    /\ NoRegistry
    /\ ConnReady
    /\ DialogNew
    /\ CastNew
    /\ UiNew
    /\ TabNew

UiNext ==
    \/ \E canvas2d \in BOOLEAN : UiStart(canvas2d)
    \/ \E k \in 1..MaxUiStarts : UiSessionOk(k)
    \/ \E k \in 1..MaxUiStarts : UiSessionFail(k)
    \/ UiStartCmdOk
    \/ UiStartCmdFail
    \/ UiStop
    \/ UiStopCmdOk
    \/ UiStopCmdFail
    \/ UiDetachOk
    \/ UiDetachFail
    \/ \E k \in 1..MaxUiStarts : UiFrameFails(k)

SpecCastUi == UiInit /\ [][UiNext]_vars

\* ------------------------------------------------------------------ Tab
\* The page opens a dialog, one at a time, and announces it with a 'dialog'
\* event.
TabPageOpensDialog ==
    /\ tbShowing = 0
    /\ tbNextDlg < MaxTabDialogs
    /\ tbNextDlg' = tbNextDlg + 1
    /\ tbShowing' = tbNextDlg + 1
    /\ tbQueue' = Append(tbQueue, [kind |-> "opened", d |-> tbNextDlg + 1])
    /\ UNCHANGED <<tbDialog, tbHandled, tbCmds, tbNavs, tbIsLoading, tbReloadCtrl,
                   tbReloads, tbNextCtrl, tbNote, tbFavicon, tbFavCalls, tbSyncs,
                   tbMeta, tbLast, notTab>>

\* Tab.onDialog(dialog), for the 'dialog' event at the head of the queue.
onDialog ==
    /\ tbQueue # <<>> /\ Head(tbQueue).kind = "opened"
    /\ tbQueue' = Tail(tbQueue)
    /\ tbDialog' = Head(tbQueue).d
    /\ tbLast' = TabStep("onDialog", Head(tbQueue).d, "none", <<>>, <<>>)
    /\ UNCHANGED <<tbShowing, tbNextDlg, tbHandled, tbCmds, tbNavs, tbIsLoading,
                   tbReloadCtrl, tbReloads, tbNextCtrl, tbNote, tbFavicon,
                   tbFavCalls, tbSyncs, tbMeta, notTab>>

\* The listener of the 'dialog' event of dialog d calls the accept or the
\* dismiss closure it was given (lines 125-132), up to the awaited action. A
\* Dialog acts once: invoked again it rejects at once.
DialogClosure(d) ==
    /\ d \in 1..tbNextDlg
    /\ \A i \in DOMAIN tbQueue : tbQueue[i] # [kind |-> "opened", d |-> d]
    /\ IF d \in tbHandled
       THEN /\ tbLast' = TabStep("closure", d, "throw", <<>>, <<>>)
            /\ UNCHANGED <<tbHandled, tbCmds>>
       ELSE /\ tbHandled' = tbHandled \cup {d}
            /\ tbCmds' = Append(tbCmds, d)
            /\ tbLast' = TabStep("closure", d, "pending", <<>>,
                                 <<"Page.handleJavaScriptDialog">>)
    /\ UNCHANGED <<tbDialog, tbShowing, tbNextDlg, tbQueue, tbNavs, tbIsLoading,
                   tbReloadCtrl, tbReloads, tbNextCtrl, tbNote, tbFavicon,
                   tbFavCalls, tbSyncs, tbMeta, notTab>>

\* The page receives a dialog command: it closes the dialog it shows, or
\* replies with an error when it shows none.
TabPageHandlesDialog ==
    /\ tbCmds # <<>>
    /\ tbCmds' = Tail(tbCmds)
    /\ tbShowing' = 0
    /\ tbQueue' = Append(tbQueue, [kind |-> IF tbShowing # 0 THEN "replyOk"
                                            ELSE "replyError",
                                   d |-> Head(tbCmds)])
    /\ UNCHANGED <<tbDialog, tbNextDlg, tbHandled, tbNavs, tbIsLoading,
                   tbReloadCtrl, tbReloads, tbNextCtrl, tbNote, tbFavicon,
                   tbFavCalls, tbSyncs, tbMeta, tbLast, notTab>>

\* The awaited action of a closure settles: on success lines 127, 131 clear
\* #dialog, on failure the closure rejects.
ClosureSettles ==
    /\ tbQueue # <<>> /\ Head(tbQueue).kind \in {"replyOk", "replyError"}
    /\ tbQueue' = Tail(tbQueue)
    /\ IF Head(tbQueue).kind = "replyOk"
       THEN /\ tbDialog' = 0
            /\ tbLast' = TabStep("closureOk", Head(tbQueue).d, "void", <<>>, <<>>)
       ELSE /\ tbDialog' = tbDialog
            /\ tbLast' = TabStep("closureFailed", Head(tbQueue).d, "throw", <<>>, <<>>)
    /\ UNCHANGED <<tbShowing, tbNextDlg, tbHandled, tbCmds, tbNavs, tbIsLoading,
                   tbReloadCtrl, tbReloads, tbNextCtrl, tbNote, tbFavicon,
                   tbFavCalls, tbSyncs, tbMeta, notTab>>

\* The test of lines 76, 85 with a plausible slip: it is never taken.
NeverBlocked(d) == FALSE

\* lines 76, 85: if (this.#dialog)
DialogBlocks(d) == d # 0

\* Tab.goBack(waitUntil) / Tab.goForward(waitUntil), which Tabs.goBack() and
\* Tabs.goForward() call on the active tab: up to the awaited navigation.
Navigate(op) ==
    /\ IF DialogBlocks(tbDialog)
       THEN /\ tbNavs' = tbNavs
            /\ tbLast' = TabStep(op, 0, "false", <<>>, <<>>)
       ELSE /\ Len(tbNavs) < MaxNavs
            /\ tbNavs' = Append(tbNavs, op)
            /\ tbLast' = TabStep(op, 0, "pending", <<>>, <<"Page.navigateToHistoryEntry">>)
    /\ UNCHANGED <<tbDialog, tbShowing, tbNextDlg, tbHandled, tbCmds, tbQueue,
                   tbIsLoading, tbReloadCtrl, tbReloads, tbNextCtrl, tbNote,
                   tbFavicon, tbFavCalls, tbSyncs, tbMeta, notTab>>

\* The navigation of the oldest goBack()/goForward() call settles: the call
\* returns true, or rejects with the navigation's error.
NavigateSettles(ok) ==
    /\ tbNavs # <<>>
    /\ tbNavs' = Tail(tbNavs)
    /\ tbLast' = TabStep("navigated", 0, IF ok THEN "true" ELSE "throw", <<>>, <<>>)
    /\ UNCHANGED <<tbDialog, tbShowing, tbNextDlg, tbHandled, tbCmds, tbQueue,
                   tbIsLoading, tbReloadCtrl, tbReloads, tbNextCtrl, tbNote,
                   tbFavicon, tbFavCalls, tbSyncs, tbMeta, notTab>>

\* A Tab on its own.
TabInit ==
    /\ NoRegistry
    /\ ConnReady
    /\ DialogNew
    /\ CastNew
    /\ UiNew
    /\ TabNew

\* The Tab's dialog and history navigation.
TabNavNext ==
    \/ TabPageOpensDialog
    \/ onDialog
    \/ \E d \in 1..MaxTabDialogs : DialogClosure(d)
    \/ TabPageHandlesDialog
    \/ ClosureSettles
    \/ \E op \in {"goBack", "goForward"} : Navigate(op)
    \/ \E ok \in BOOLEAN : NavigateSettles(ok)

SpecTabNav == TabInit /\ [][TabNavNext]_vars

\* The Tab's loading state, favicon and published TabMeta as one value;
\* emitted and sent collect the loadingStateChanged values the step emits
\* and the commands it sends, pub the #syncTabMeta call that publishes, and
\* full tells that the step needs more calls in flight than are modelled.
TB == [loading |-> tbIsLoading, ctrl |-> tbReloadCtrl, reloads |-> tbReloads,
       next |-> tbNextCtrl, note |-> tbNote, favicon |-> tbFavicon,
       favCalls |-> tbFavCalls, syncs |-> tbSyncs, meta |-> tbMeta,
       emitted |-> <<>>, sent |-> <<>>, pub |-> <<>>, full |-> FALSE]

\* The step's outcome t becomes the next state.
TabBecomes(t, op, k, result) ==
    /\ ~t.full
    /\ tbIsLoading' = t.loading
    /\ tbReloadCtrl' = t.ctrl
    /\ tbReloads' = t.reloads
    /\ tbNextCtrl' = t.next
    /\ tbNote' = t.note
    /\ tbFavicon' = t.favicon
    /\ tbFavCalls' = t.favCalls
    /\ tbSyncs' = t.syncs
    /\ tbMeta' = t.meta
    /\ tbLast' = [TabStep(op, k, result, t.emitted, t.sent) EXCEPT !.pub = t.pub]
    /\ UNCHANGED <<tbDialog, tbShowing, tbNextDlg, tbHandled, tbCmds, tbQueue,
                   tbNavs, notTab>>

\* Tab.getFavicon() up to its await, for #syncTabMeta call i (0: another
\* caller): a cached favicon is returned at once, else the page is asked.
GetFavicon(t, i) ==
    IF t.favicon # ""
    THEN [t EXCEPT !.syncs = IF @ = <<>> THEN <<>>
                             ELSE [j \in DOMAIN @ |->
                                     IF @[j].id = i
                                     THEN [@[j] EXCEPT !.fav = t.favicon]
                                     ELSE @[j]]]
    ELSE [t EXCEPT !.favCalls = Append(@, [sync |-> i]),
                   !.sent = Append(@, "evaluate"),
                   !.full = @ \/ Len(t.favCalls) >= MaxFavCalls]

\* Tabs.#syncTabMeta(tabId) for this tab up to its await: title and favicon
\* are fetched together.  byEvent tells that the listener of the tab's
\* loadingStateChanged event made the call.
StartSync(t, byEvent) ==
    LET i == CHOOSE n \in 1..(MaxSyncs + 1) :
               /\ \A j \in DOMAIN t.syncs : t.syncs[j].id # n
               /\ \A m \in 1..(n - 1) : \E j \in DOMAIN t.syncs : t.syncs[j].id = m
    IN  GetFavicon([t EXCEPT !.syncs = Append(@, [id |-> i, title |-> "pending",
                                                  fav |-> "pending",
                                                  favFailed |-> FALSE,
                                                  byEvent |-> byEvent]),
                             !.sent = Append(@, "title"),
                             !.full = @ \/ Len(t.syncs) >= MaxSyncs],
                   i)

\* #syncTabMeta call i goes on once both fetches have settled (lines
\* 212-221): a rejected getTitle() gives 'Loading...', the favicon is what
\* getFavicon() returned, and the entry is set as a whole.
FinishSync(t, i) ==
    LET sy == SelectSeq(t.syncs, LAMBDA r : r.id = i) IN
    IF sy = <<>> \/ sy[1].title = "pending" \/ sy[1].fav = "pending"
    THEN t
    ELSE [t EXCEPT !.syncs = SelectSeq(@, LAMBDA r : r.id # i),
                   !.meta = <<[title |-> IF sy[1].title = "fail" THEN "Loading..."
                                         ELSE "title",
                               favicon |-> sy[1].fav,
                               isLoading |-> FALSE]>>,
                   !.pub = sy]

\* The test of line 137 with a plausible slip: it is never taken.
NeverSameLoading(cur, loading) == FALSE

\* line 137: this.#isLoading === loading
SameLoading(cur, loading) == cur = loading

\* Tab.#setLoading(loading); the registry's listener of the event (part_002
\* lines 261-265) starts #syncTabMeta.
SetLoading(t, loading) ==
    IF SameLoading(t.loading, loading)
    THEN t
    ELSE StartSync([t EXCEPT !.loading = loading,
                             !.note = IF loading THEN "true" ELSE "false",
                             !.emitted = Append(@, loading)],
                   TRUE)

\* Tab.reload() up to its await: the controller in the field is aborted,
\* which rejects the wait of the reload() that made it; a new one is stored.
reload ==
    /\ tbNextCtrl < MaxReloads
    /\ LET k == tbNextCtrl + 1
           t1 == [TB EXCEPT !.reloads = [j \in DOMAIN @ |->
                                           IF j = tbReloadCtrl /\ @[j] = "pending"
                                           THEN "aborted" ELSE @[j]],
                            !.ctrl = k,
                            !.next = k]
           t2 == SetLoading(t1, TRUE)
       IN  TabBecomes([t2 EXCEPT !.reloads[k] = "pending",
                                 !.sent = Append(@, "reload")],
                      "reload", k, "pending")

\* The catch block of lines 107-109 with a plausible slip: it rethrows.
CatchRethrows(outcome) == IF outcome = "ok" THEN "void" ELSE "throw"

\* lines 101-111: how reload() ends after page.reload() has settled; the
\* catch block swallows every error.
ReloadResult(outcome) == "void"

\* page.reload() of reload() call k settles (ok, fail) or its wait has been
\* aborted (cancelled): lines 106-111 run and the call ends.  The rejection
\* of an aborted wait is delivered before any later reply of the page.
ReloadSettles(k, outcome) ==
    /\ tbReloads[k] = (IF outcome = "cancelled" THEN "aborted" ELSE "pending")
    /\ outcome # "cancelled" => \A j \in 1..MaxReloads : tbReloads[j] # "aborted"
    /\ TabBecomes([SetLoading(TB, FALSE) EXCEPT !.ctrl = 0, !.reloads[k] = outcome],
                  "reloadEnds", k, ReloadResult(outcome))

\* getFavicon() is called by another caller than #syncTabMeta.
getFavicon ==
    /\ Len(tbFavCalls) <= MaxFavCalls
    /\ TabBecomes(GetFavicon(TB, 0), "getFavicon", 0,
                  IF tbFavicon # "" THEN tbFavicon ELSE "pending")

\* page.evaluate of the c-th getFavicon() call in flight settles: on success
\* the favicon is cached; either way `return this.#favicon` (line 65).
FaviconSettles(c, ok) ==
    /\ c \in DOMAIN tbFavCalls
    /\ \A j \in 1..MaxReloads : tbReloads[j] # "aborted"
    /\ LET i == tbFavCalls[c].sync
           value == IF ok THEN "icon" ELSE tbFavicon
           t1 == [TB EXCEPT
                    !.favicon = value,
                    !.favCalls = SubSeq(@, 1, c - 1) \o SubSeq(@, c + 1, Len(@)),
                    !.syncs = IF @ = <<>> THEN <<>>
                              ELSE [j \in DOMAIN @ |->
                                      IF @[j].id = i
                                      THEN [@[j] EXCEPT !.fav = value,
                                                        !.favFailed = ~ok]
                                      ELSE @[j]]]
       IN  TabBecomes(FinishSync(t1, i), IF ok THEN "faviconOk" ELSE "faviconFailed",
                      i, value)

\* page.title() of #syncTabMeta call i settles.
TitleSettles(i, ok) ==
    /\ \E j \in DOMAIN tbSyncs : tbSyncs[j].id = i /\ tbSyncs[j].title = "pending"
    /\ \A j \in 1..MaxReloads : tbReloads[j] # "aborted"
    /\ TabBecomes(FinishSync([TB EXCEPT !.syncs = [j \in DOMAIN @ |->
                                 IF @[j].id = i
                                 THEN [@[j] EXCEPT !.title = IF ok THEN "ok" ELSE "fail"]
                                 ELSE @[j]]], i),
                  "titleSettles", i, "none")

\* The registry calls #syncTabMeta for the tab (activeTab, createTab).
syncTabMetaOfTab ==
    /\ Len(tbSyncs) <= MaxSyncs
    /\ TabBecomes(StartSync(TB, FALSE), "syncTabMeta", 0, "pending")

\* The Tab's reload and loading state, its favicon, and its TabMeta.
TabLoadNext ==
    \/ reload
    \/ \E k \in 1..MaxReloads, outcome \in {"ok", "fail", "cancelled"} :
          ReloadSettles(k, outcome)
    \/ getFavicon
    \/ \E c \in 1..MaxFavCalls, ok \in BOOLEAN : FaviconSettles(c, ok)
    \/ \E i \in 1..MaxSyncs, ok \in BOOLEAN : TitleSettles(i, ok)
    \/ syncTabMetaOfTab

SpecTabLoad == TabInit /\ [][TabLoadNext]_vars

\* ------------------------------------ claims on the ScreencastRenderer
\* The renderer is Idle: no subscription is open, no start() is in flight and
\* no abort listener is waiting for the reply to its stop command.
CastIdleBefore ==
    scLast.preLive = {} /\ scLast.preStarting = {} /\ scLast.preStopping = {}

\* C11: every delivered frame is acknowledged exactly once, with its session
\* id, in delivery order, whether or not it carries a timestamp and whether
\* or not decoding or drawing a frame fails. (Stated for a renderer whose one
\* start() succeeded and on which stop() was never called.)
C11_EveryFrameAcknowledged ==
    (scNext = 1 /\ scAborted = {} /\ scListeners[1] # <<>>) =>
       scAcks = [i \in DOMAIN scFrames |-> scFrames[i].sid]

\* C12: when decoding or drawing one frame fails, the failure is reported on
\* the error channel and the stream continues: the renderer stays active
\* and its subscription stays open, so later frames are acknowledged and
\* drawn.
C12_FailureContinuesStream ==
    scLast.step = "renderFailed" =>
       /\ \E i \in DOMAIN scLast.emitted : scLast.emitted[i] = "error"
       /\ scActive = scLast.preActive
       /\ scLive = scLast.preLive

\* C13: start() on a renderer that is Active (a subscription is open) or
\* Starting (a start() is in flight) is rejected, sends no command and
\* changes no state; and at most one subscription is open at any time.
C13_SecondStartRejected ==
    /\ (scLast.step = "start" /\ (scLast.preLive # {} \/ scLast.preStarting # {})) =>
          /\ scLast.result = "throw"
          /\ scLast.sent = <<>>
          /\ scLast.same
    /\ Cardinality(scLive) <= 1

\* C21: a second dialog-opened notification arriving while a dialog is Open
\* does not drop the first dialog: as long as the page shows it, the first
\* dialog is still the one accept() and dismiss() act on.
C21_SecondOpenKeepsFirst ==
    (/\ dlgLast.step = "opened"
     /\ dlgLast.pre # 0 /\ dlgLast.pre # dlgLast.target
     /\ dlgLast.pre \in dlgShowing) =>
       dlgDialog = dlgLast.pre

C23_LoadingIffReloadPending ==
    tbIsLoading <=> (\E k \in 1..MaxReloads : tbReloads[k] \in {"pending", "aborted"})

\* C24: of two overlapping reload() calls the first is cancelled, no
\* reload() ever throws, and the second ends with an outcome that is not a
\* cancellation.
C24_FirstCancelledSecondFinal ==
    /\ tbLast.op = "reloadEnds" => tbLast.result = "void"
    /\ (tbLast.op = "reload" /\ tbLast.k = 2 /\ 1 \in tbLast.prePending)
          => tbReloads[1] = "aborted"
    /\ (tbNextCtrl = 2 /\ tbReloads[1] \in {"aborted", "cancelled"})
          => tbReloads[2] \in {"pending", "ok", "fail"}

\* C24 witness: the first of two overlapping reload() calls has ended
\* cancelled, and the second has just ended, its page.reload() having failed,
\* without throwing.
C24_Witness ==
    /\ tbNextCtrl = 2
    /\ tbReloads[1] = "cancelled"
    /\ tbReloads[2] = "fail"
    /\ tbLast.op = "reloadEnds"
    /\ tbLast.k = 2
    /\ tbLast.result = "void"

\* C25: a reload() made while earlier ones are pending aborts their waits,
\* so never are two reloads pending whose waits are not aborted.
C25_OneLiveAttempt ==
    /\ tbLast.op = "reload" => \A j \in tbLast.prePending : tbReloads[j] # "pending"
    /\ Cardinality({k \in 1..MaxReloads : tbReloads[k] = "pending"}) <= 1

\* C26: loadingStateChanged is emitted exactly by the steps that flip the
\* flag, carries the new value, and differs from the value emitted before.
C26_NotifiesOnFlipOnly ==
    /\ Len(tbLast.emitted) <= 1
    /\ (tbLast.emitted # <<>>) <=> (tbIsLoading # tbLast.preLoading)
    /\ tbLast.emitted # <<>> =>
          /\ tbLast.emitted[1] = tbIsLoading
          /\ tbLast.preNote # tbNote
          /\ tbNote = (IF tbIsLoading THEN "true" ELSE "false")

\* C26 witness: a second reload() has set the flag to true while it was
\* true, and nothing was emitted.
C26_Witness ==
    /\ tbLast.op = "reload"
    /\ tbLast.k = 2
    /\ tbLast.preLoading
    /\ tbLast.emitted = <<>>
    /\ tbNote = "true"
    /\ tbReloads[1] = "aborted"

\* C27: getFavicon() returns a cached favicon without asking the page; with
\* nothing cached it asks the page, and a failed call returns null and
\* caches nothing.
C27_FaviconMemoOrNull ==
    /\ (tbLast.op = "getFavicon" /\ tbLast.preFavicon # "") =>
          /\ tbLast.result = tbLast.preFavicon
          /\ tbLast.sent = <<>>
    /\ (tbLast.op = "getFavicon" /\ tbLast.preFavicon = "") =>
          tbLast.sent = <<"evaluate">>
    /\ tbLast.op = "faviconFailed" =>
          /\ tbLast.result = "null"
          /\ tbFavicon = tbLast.preFavicon

\* C29: a #syncTabMeta call publishes 'Loading...' as the title exactly when
\* its title fetch failed and null as the favicon exactly when its favicon
\* fetch failed, the other value being the fetched one.
C29_SyncFallsBackPerFetch ==
    tbLast.pub # <<>> =>
       /\ tbMeta[1].title = (IF tbLast.pub[1].title = "fail" THEN "Loading..."
                             ELSE "title")
       /\ tbMeta[1].favicon = (IF tbLast.pub[1].favFailed THEN "null" ELSE "icon")

\* C31: while the reload() started last is pending, the tab's
\* #reloadAbortController is the controller that call made.
C31_TokenOfNewestReload ==
    (tbNextCtrl # 0 /\ tbReloads[tbNextCtrl] = "pending") => tbReloadCtrl = tbNextCtrl

\* C38: when a #syncTabMeta call started by the tab's loadingStateChanged
\* event publishes, the published isLoading is the tab's loading flag.
C38_PublishedLoadingIsFlag ==
    (tbLast.pub # <<>> /\ tbLast.pub[1].byEvent) => tbMeta[1].isLoading = tbIsLoading

\* C32: when no operation of the registry is in flight, a published entry
\* has isActive = TRUE only if its id is activeTabId, so at most one has.
\* (Stated here for behaviours in which no browser call has rejected.)
C32_OnlyActiveTabMarkedActive ==
    (Quiescent /\ failures = 0) =>
       \A i \in DOMAIN stateTabs : stateTabs[i].isActive => stateTabs[i].id = activeTabId

\* C33: the id of a tab closeTab has removed is no key of the published tabs
\* map.
C33_ClosedIdStaysUnpublished ==
    \A id \in 1..nextTab : id \notin DOMAIN tabs => id \notin Keys(stateTabs)

\* C34: once destroy() has returned, with no other operation in flight
\* since it was called and no browser call rejected, no tab is registered or
\* published and activeTabId is absent.
C34_DestroyLeavesNothing ==
    (ret.fn = "destroy" /\ ret.result = "void" /\ Quiescent /\ failures = 0) =>
       /\ DOMAIN tabs = {}
       /\ stateTabs = <<>>
       /\ activeTabId = 0

\* C36: when an accept()/dismiss() call returns after the closed
\* notification of the dialog it acted on has been delivered and while
\* #dialog is another, showing dialog, that dialog stays the interceptor's
\* dialog and no isOpen = false event is emitted.
C36_CallLeavesNewDialogOpen ==
    (/\ dlgLast.step \in {"actionOk", "actionFailed"}
     /\ dlgLast.pre # 0
     /\ dlgLast.pre # dlgLast.target
     /\ dlgLast.target \notin dlgShowing
     /\ \A i \in DOMAIN dlgQueue : dlgQueue[i].dialog # dlgLast.target
     /\ dlgLast.pre \in dlgShowing)
    => /\ dlgDialog = dlgLast.pre
       /\ dlgLast.emitted = <<>>

\* C28: the handler of a target-created event registers a tab only when it
\* finds the target's page not marked as being created, and then its tab is
\* the one registered; a handler that ends without registering leaves tabs
\* and activeTabId as they were; and once the handler of a popup has
\* completed, the popup's tab is the active one.
C28_PopupRegistration ==
    /\ [][\A t \in TaskIds :
            (/\ tasks[t] # <<>>
             /\ tasks[t][1].fn = "handleTargetCreated"
             /\ tasks[t][1].pc = "targetPage"
             /\ \A u \in TaskIds : tasks'[u] # tasks[t])
            => IF \E u \in TaskIds : /\ tasks'[u] # <<>>
                                    /\ tasks'[u][1].fn = "handleTargetCreated"
                                    /\ tasks'[u][1].page = tasks[t][1].page
               THEN /\ tasks[t][1].page \notin creatingPages
                    /\ nextTab' = nextTab + 1
                    /\ tabs' = TabsSet(tabs, nextTab', tasks[t][1].page)
               ELSE /\ tabs' = tabs
                    /\ activeTabId' = activeTabId
                    /\ nextTab' = nextTab]_vars
    /\ [](ret.fn = "handleTargetCreated" /\ ret.result = "void" /\ ret.newTid # 0
            => activeTabId = ret.newTid)

\* C28 witness: the handler of a popup has completed while another tab was
\* active before, and the popup's tab is registered and active.
C28_Witness ==
    /\ ret.fn = "handleTargetCreated"
    /\ ret.result = "void"
    /\ ret.newTid # 0
    /\ ret.preActive # 0
    /\ ret.newTid \in DOMAIN tabs
    /\ activeTabId = ret.newTid

\* C30: a completed activeTab(id) has synced the tab that was active, then
\* set activeTabId, then brought the tab to front, then notified the other
\* tabs inactive, then synced the tab, in this order.
C30_ActiveTabOrder ==
    (ret.fn = "activeTab" /\ ret.result = "true") =>
       /\ ret.trail =
            (IF ret.preActive # 0 /\ ret.preActive # ret.arg
                  /\ ret.preActive \in ret.preTabs
             THEN <<[e |-> "sync", tab |-> ret.preActive]>> ELSE <<>>)
            \o <<[e |-> "setActive", tab |-> ret.arg],
                 [e |-> "bringToFront", tab |-> ret.arg]>>
            \o (IF ret.preTabs \ {ret.arg} # {}
                THEN <<[e |-> "inactive", tab |-> 0]>> ELSE <<>>)
            \o <<[e |-> "sync", tab |-> ret.arg]>>
       /\ activeTabId = ret.arg

\* C30 witness: activeTab(id) has returned true after all five steps, another
\* tab having been active.
C30_Witness ==
    /\ ret.fn = "activeTab"
    /\ ret.result = "true"
    /\ Len(ret.trail) = 5
    /\ ret.trail[1].e = "sync"
    /\ ret.trail[1].tab # ret.arg
    /\ ret.trail[5] = [e |-> "sync", tab |-> ret.arg]

\* The renderer of part_002: stop() on an Idle renderer sends no command,
\* emits no notification, changes no state and raises no error.
CastStopOnIdleNoOp ==
    (scLast.step = "stop" /\ CastIdleBefore) =>
       /\ scLast.result = "void"
       /\ scLast.sent = <<>>
       /\ scLast.emitted = <<>>
       /\ scLast.same

\* The renderer of part_002: stop() on a renderer with an open subscription
\* and no start() in flight closes the subscription and does not raise; once
\* the stop command is replied to or has failed, the renderer is not active
\* and holds no stream.
CastStopEndsIdle ==
    /\ (scLast.step = "stop" /\ scLast.preLive # {} /\ scLast.preStarting = {}) =>
          /\ scLast.result = "void"
          /\ scLive = {}
    /\ scLast.step = "stopSettled" => ~scActive /\ scObservable = 0

\* The renderer of browser-ui is Idle: the page is not streaming, no
\* subscription is open and no start() or stop() is in flight.
UiIdleBefore ==
    /\ ~uiLast.preRemote /\ uiLast.preLive = {}
    /\ uiLast.preStarting = {} /\ uiLast.preStopping = {}

\* C14: stop() on an Idle renderer is a no-op: it sends no command, changes
\* no state and raises no error. (Renderer of browser-ui.)
C14_StopOnIdleNoOp ==
    (uiLast.step = "stop" /\ UiIdleBefore) =>
       /\ uiLast.result = "void"
       /\ uiLast.sent = <<>>
       /\ uiLast.same

\* C15: stop() on an Active renderer ends with the renderer Idle, also when
\* the stop command fails, and that failure never reaches the caller: a
\* stop() that finds a subscription open sends the stop command, and when
\* that command fails the stop() call does not reject and no subscription
\* stays open. (Renderer of browser-ui.)
C15_StopEndsIdle ==
    /\ (uiLast.step = "stop" /\ uiLast.preLive # {} /\ uiLast.preStopping = {}) =>
          uiLast.sent = <<"Page.stopScreencast">>
    /\ (uiLast.step = "stopFailed" /\ uiLast.preLive # {}) =>
          uiLast.result # "throw" /\ uiLive = {}

\* C16: when start() fails because the sub-session cannot be created or the
\* start command fails, the error reaches the caller and the renderer is
\* reset: not active, no AbortController, no stream; a later start() is
\* accepted.
C16_StartFailureResets ==
    scLast.step = "startFailed" =>
       /\ scLast.result = "throw"
       /\ ~scActive
       /\ scAbortController = 0
       /\ scObservable = 0
       /\ ~AlreadyActive(scActive)

\* C16 witness: the start command of the first start() has failed.
C16_Witness ==
    /\ scLast.step = "startFailed" /\ scLast.result = "throw"
    /\ scCdpSession /\ ~scActive /\ scNext = 1

\* C37: the teardown of a stopped session never switches off a session
\* started after that stop(): when the abort listener of session k resumes
\* after its stop command while the renderer is active with the
\* AbortController of a later start(), the renderer is still active.
C37_TeardownSparesNewSession ==
    (/\ scLast.step = "stopSettled"
     /\ scLast.preActive
     /\ scAbortController # 0
     /\ scAbortController # scLast.k)
    => scActive

\* C39: 'stopped' is emitted only by a step that takes the renderer from
\* active to not active, and once by such a step; so one start() followed
\* by one stop() emits it once.
C39_StoppedOncePerTransition ==
    LET n == Cardinality({i \in DOMAIN scLast.emitted :
                            scLast.emitted[i] = "stopped"})
    IN  n > 0 => (n = 1 /\ scLast.preActive /\ ~scActive)

====
